---------------------------- MODULE Spec2Model ----------------------------
(***************************************************************************)
(* Ingestion and delivery-matching engine of the Congress Signal           *)
(* repository: the GovInfo crawler and its SQLite catalog, the sync of the  *)
(* catalog to the store's documents table, the extraction job, the         *)
(* standard digest sender with its rule matcher, and the pro pipeline      *)
(* (select, summarize, send, onboarding) over the extractions_pro table.   *)
(*                                                                         *)
(* One module, several specifications over disjoint groups of variables:   *)
(*   Spec       the pro pipeline, jobs of several processes interleaved at *)
(*              the granularity of their store and collaborator calls,     *)
(*              and sync_to_supabase writing the documents they read       *)
(*   SpecSeq    the batch jobs alone, one after the other                  *)
(*   SpecSel    the selector alone, over more documents than top_k         *)
(*   SpecCrawl  crawl_date_range page by page, then save_documents         *)
(*   SpecSync   crawl_and_sync, init_db, sync_from_sqlite and              *)
(*              sync_to_supabase upserting the store's documents table     *)
(*   SpecStd    send_digests over subscriptions and extractions            *)
(*   SpecDigests both digest senders                                       *)
(*   SpecMatch  the rule matcher's pure predicates and other pure functions*)
(*   SpecExtract extract_documents runs over the store's documents, and    *)
(*              sync_to_supabase writing them                              *)
(* A specification leaves the other groups at their initial values.        *)
(***************************************************************************)
EXTENDS Integers, Sequences, FiniteSets, TLC

VARIABLES
    \* ---- pro pipeline ----
    subscriptions_pro,  \* table subscriptions_pro: id -> [is_verified, unsubscribed_at]
    store_documents,    \* the store's documents table: id -> the row's eleven other columns
    store_next_id,      \* the serial that numbers the rows of the documents table
    extractions_pro,    \* table extractions_pro: (sub, doc, period) -> rows with that key
    procs,              \* each process's running job and its position in it
    budget,             \* number of jobs that may still start
    delivered,          \* per (sub, doc, period): messages the mail transport accepted
    registered,         \* per (sub, doc, period): upserts that returned without raising
    now,                \* datetime.now(), strictly increasing between two readings
    \* ---- crawler and catalog ----
    crawl,              \* the running crawl_day or sync: position, offset, total_count, log;
                        \* whether the SQLite file has its documents table
    documents,          \* SQLite table documents: sequence of rows, id = AUTOINCREMENT
    next_id,            \* SQLite's AUTOINCREMENT counter
    ingest,             \* history: what each completed crawl_day stored
    \* ---- standard digest ----
    subscriptions,      \* table subscriptions
    std,                \* the running send_digests: position, queue, stats
    std_delivered,      \* per (subscription, extraction): accepted messages
    \* ---- rule matcher ----
    m_in,               \* inputs of the predicate under evaluation
    m_out,              \* its result
    \* ---- extraction job ----
    sb_extractions,     \* the store's extractions table: sequence of rows
    extract             \* the running extract_documents: position, batch, result

proVars   == <<subscriptions_pro, extractions_pro, procs, budget, delivered, registered>>
storeVars == <<store_documents, store_next_id>>
crawlVars == <<crawl, documents, next_id, ingest>>
stdVars   == <<subscriptions, std, std_delivered>>
matchVars == <<m_in, m_out>>
extractVars == <<sb_extractions, extract>>
vars == <<subscriptions_pro, store_documents, store_next_id, extractions_pro, procs, budget,
          delivered, registered, now,
          crawl, documents, next_id, ingest,
          subscriptions, std, std_delivered, m_in, m_out,
          sb_extractions, extract>>

(***************************************************************************)
(* Bounds of the model.                                                    *)
(***************************************************************************)
MaxSubs == 2        \* pro subscriptions 1..MaxSubs
MaxDocs == 1        \* documents 1..MaxDocs known to the similarity search
MaxPeriods == 2     \* digest periods (calendar dates) 1..MaxPeriods
MaxProcs == 2       \* processes running jobs at the same time
MaxJobs == 2        \* jobs started in one behaviour of interleaved jobs
MaxSeqJobs == 5     \* jobs started in one behaviour of jobs run one after the other
MaxClock == 3       \* readings of datetime.now() that set a timestamp
MaxDeliver == 2     \* accepted messages counted per tuple
MaxRegister == 2    \* successful registrations counted per tuple
MaxSelDocs == 2     \* documents known to the search when the selector runs alone
MaxTopK == 1        \* largest --top-k of a selector run
MaxAnswer == 1      \* rows in one answer of the search while the pipeline runs
MaxSelAnswer == 2   \* rows in one answer of the search when the selector runs alone
MaxSumLimit == 1    \* largest --limit of a summarizer run
MaxSelRuns == 2     \* selector runs in one behaviour of the selector alone
MaxIds == 3         \* document ids in one list handed to insert_extractions_pro
MaxCrawls == 2      \* crawl_day / crawl_range runs in one behaviour
MaxDates == 2       \* calendar dates 1..MaxDates a crawl may ask for
MaxPageLen == 1     \* records in one page of the search response
MaxSyncs == 2       \* sync_to_supabase runs in one behaviour
MaxSyncDocs == 2    \* documents in one list handed to sync_to_supabase
MaxParsed == 2      \* records of one page handed to the parsing loop alone
MaxXDocs == 2       \* rows of the store's documents table the extraction job reads
MaxLimit == 1       \* largest --limit of an extraction run
MaxExtractRuns == 2 \* extract_documents runs in one behaviour
MaxTotal == 300     \* largest iTotalCount the search reports
MaxStdRuns == 2     \* send_digests runs in one behaviour
MaxStdSubs == 2     \* rows of the subscriptions table
MaxTiers == 3       \* relevance tiers of one extraction
MaxSectors == 2     \* sector tags of one extraction or one subscription
MaxKeywords == 2    \* keywords of one subscription
MaxExtractions == 3 \* extractions handed to the filter in one call

(***************************************************************************)
(* Nullable values: Null is SQL NULL / Python None, Some(v) a value.       *)
(***************************************************************************)
Null == <<>>
Some(v) == <<v>>
IsNull(x) == x = <<>>

\* The lists a select without ORDER BY may return for the rows S: the store
\* fixes no order.
RECURSIVE Orders(_)
Orders(S) ==
    IF S = {} THEN {<<>>}
    ELSE UNION {{<<x>> \o q : q \in Orders(S \ {x})} : x \in S}

Range(s) == {s[i] : i \in DOMAIN s}

MinOf(a, b) == IF a <= b THEN a ELSE b

\* The lists of at most n elements of S.
RECURSIVE SeqsUpTo(_, _)
SeqsUpTo(S, n) ==
    IF n = 0 THEN {<<>>}
    ELSE LET shorter == SeqsUpTo(S, n - 1)
         IN shorter \cup {Append(q, x) : q \in {r \in shorter : Len(r) = n - 1}, x \in S}

(***************************************************************************)
(* THE STORE'S DOCUMENTS TABLE (supabase/sync.py)                          *)
(***************************************************************************)
BASE_URL == "https://www.govinfo.gov"

\* The granules of package PKG-A and the HTML file of each.
GranuleIds == <<"GR-1", "GR-2", "GR-3">>
HtmlFiles == <<"a.htm", "b.htm", "c.htm">>

\* The row sync_to_supabase's upsert wrote for granule d of package PKG-A:
\* the eleven columns of its record.  title is nullable in the store.
StoredDocument(d, has_url, title, publish_date) ==
    [package_id |-> "PKG-A", granule_id |-> Some(GranuleIds[d]), title |-> title,
     doc_class |-> "FR", publish_date |-> publish_date, metadata |-> "line2",
     pdf_url |-> Null,
     html_url |-> IF has_url
                  THEN Some(<<BASE_URL, "content", "pkg", "PKG-A", HtmlFiles[d]>>)
                  ELSE Null,
     details_url |-> <<BASE_URL, "app", "details", "PKG-A", GranuleIds[d]>>,
     summary |-> "", crawled_at |-> 0]

\* The crawl-and-sync process at rest.  sync: the crawl is crawl_and_sync's;
\* records, batch_size, i, total: the list sync_to_supabase was handed and
\* its loop; returned: what the last sync returned; syncs counts the syncs
\* begun; db: init_db has created the documents table in the SQLite file.
CrawlIdle ==
    [pc |-> "idle", start_date |-> Null, end_date |-> Null, query_date |-> Null,
     offset |-> 0, total_count |-> Null, requests |-> <<>>, pages |-> <<>>,
     docs |-> <<>>, http_error |-> FALSE, recount |-> FALSE,
     sync |-> FALSE, records |-> <<>>, batch_size |-> 100, i |-> 0, total |-> 0,
     returned |-> Null, syncs |-> 0, db |-> FALSE]

\* UNIQUE(package_id, granule_id) as SQLite and the store apply it: a NULL
\* is distinct from every value, another NULL included, so a row conflicts
\* with doc only when both granule ids are set.
conflicts(row, doc) ==
    /\ row.package_id = doc.package_id
    /\ ~IsNull(row.granule_id) /\ ~IsNull(doc.granule_id)
    /\ row.granule_id = doc.granule_id

\* The record sync_to_supabase builds of one doc: these eleven keys.
record_of(doc) ==
    [package_id |-> doc.package_id, granule_id |-> doc.granule_id,
     title |-> doc.title, doc_class |-> doc.doc_class,
     publish_date |-> doc.publish_date, metadata |-> doc.metadata,
     pdf_url |-> doc.pdf_url, html_url |-> doc.html_url,
     details_url |-> doc.details_url, summary |-> doc.summary,
     crawled_at |-> doc.crawled_at]

\* One row of .upsert(records, on_conflict="package_id,granule_id"): the row
\* of the same package_id and granule_id takes the record's columns and
\* keeps its id, else the record is inserted under id.  A NULL granule_id
\* conflicts with no row.
upsert_document(tbl, id, rec) ==
    IF \E d \in DOMAIN tbl : conflicts(tbl[d], rec)
    THEN [d \in DOMAIN tbl |-> IF conflicts(tbl[d], rec) THEN rec ELSE tbl[d]]
    ELSE [d \in DOMAIN tbl \cup {id} |-> IF d = id THEN rec ELSE tbl[d]]

\* The rows of one upsert call.  The serial gives every row of the call a
\* number, also a row that updates.
RECURSIVE upsert_documents(_, _, _)
upsert_documents(tbl, id, records) ==
    IF records = <<>> THEN [tbl |-> tbl, next_id |-> id]
    ELSE upsert_documents(upsert_document(tbl, id, Head(records)), id + 1,
                          Tail(records))

\* The dict crawl_and_sync builds of a crawled Document.  documents.title
\* is nullable in the store and in SQLite; a Document's title is None when
\* the record held "title": null.
doc_dict(doc, crawled_at) ==
    [package_id |-> doc.package_id, granule_id |-> doc.granule_id,
     title |-> doc.title, doc_class |-> doc.doc_class,
     publish_date |-> doc.publish_date, metadata |-> doc.metadata,
     pdf_url |-> doc.pdf_url, html_url |-> doc.html_url,
     details_url |-> doc.details_url, summary |-> doc.summary,
     crawled_at |-> crawled_at]

\* dict(row) of a row of the SQLite table: its twelve columns.
row_dict(row) == row

\* sync_from_sqlite's SELECT: date is Null when it is not given.
select_documents(tbl, date) ==
    IF IsNull(date) THEN tbl
    ELSE SelectSeq(tbl, LAMBDA row : row.publish_date = date[1])

\* sync_to_supabase(supabase, docs, batch_size) entered by job, and the two
\* callers' "if not docs: return 0".
syncing(job, docs, batch_size) ==
    IF docs = <<>>
    THEN [job EXCEPT !.pc = "idle", !.returned = Some(0), !.syncs = @ + 1]
    ELSE [job EXCEPT !.pc = "upsert", !.records = docs, !.batch_size = batch_size,
                     !.i = 0, !.total = 0, !.returned = Null, !.syncs = @ + 1]

\* What a sync leaves alone beside the clock and the count of jobs.
NotStore ==
    UNCHANGED <<subscriptions_pro, extractions_pro, procs, delivered, registered,
                documents, next_id, ingest, stdVars, matchVars, extractVars>>

\* sync_to_supabase(supabase, docs, batch_size) up to its first upsert.
\* counted: the call is one of the jobs the behaviour counts.
SyncToSupabase(docs, batch_size, counted) ==
    /\ crawl.pc \in {"idle", "raised"}
    /\ crawl.syncs < MaxSyncs
    /\ IF counted THEN budget > 0 /\ budget' = budget - 1 ELSE UNCHANGED budget
    /\ crawl' = syncing([CrawlIdle EXCEPT !.syncs = crawl.syncs, !.db = crawl.db],
                        docs, batch_size)
    /\ UNCHANGED <<storeVars, now>>
    /\ NotStore

\* init_db(db_path): CREATE TABLE IF NOT EXISTS documents; the rows of the
\* file stay as they are.
InitDb ==
    /\ crawl.pc \in {"idle", "raised"}
    /\ crawl' = [crawl EXCEPT !.db = TRUE]
    /\ UNCHANGED <<storeVars, now, budget>>
    /\ NotStore

\* sync_from_sqlite(supabase, db_path, date) up to the first upsert.  It
\* calls no init_db: sqlite3.connect alone opens a file without a documents
\* table until init_db, by itself or in a crawl, has created it.
SyncFromSqlite(date) ==
    /\ crawl.pc \in {"idle", "raised"}
    /\ crawl.syncs < MaxSyncs
    /\ LET job == [CrawlIdle EXCEPT !.syncs = crawl.syncs, !.db = crawl.db]
       IN crawl' =
            IF ~crawl.db
            THEN \* sqlite3.OperationalError: no such table
                 [job EXCEPT !.pc = "raised", !.syncs = @ + 1]
            ELSE LET rows == select_documents(documents, date)
                 IN syncing(job, [k \in DOMAIN rows |-> row_dict(rows[k])], 100)
    /\ UNCHANGED <<storeVars, now, budget>>
    /\ NotStore

\* Two records of one upsert call have the same package_id and granule_id:
\* the store refuses the statement (ON CONFLICT DO UPDATE cannot affect a row
\* a second time).
second_time(records) ==
    \E j, k \in DOMAIN records : j < k /\ conflicts(records[j], records[k])

\* One pass of sync_to_supabase's loop: the upsert of one batch.
SyncBatch ==
    /\ crawl.pc = "upsert"
    /\ LET docs == crawl.records
           batch == SubSeq(docs, crawl.i + 1, MinOf(crawl.i + crawl.batch_size, Len(docs)))
           records == [k \in DOMAIN batch |-> record_of(batch[k])]
           r == upsert_documents(store_documents, store_next_id, records)
           total == crawl.total + Len(batch)
       IN \/ \* the upsert returns
             /\ ~second_time(records)
             /\ store_documents' = r.tbl
             /\ store_next_id' = r.next_id
             /\ crawl' = IF crawl.i + crawl.batch_size >= Len(docs)
                         THEN [CrawlIdle EXCEPT !.returned = Some(total),
                                                !.syncs = crawl.syncs,
                                                !.db = crawl.db]
                         ELSE [crawl EXCEPT !.i = @ + crawl.batch_size, !.total = total]
          \/ \* the upsert raises: sync_to_supabase and its caller end.  No
             \* row is written; the serial keeps the numbers it gave out
             \* before the statement failed.
             /\ crawl' = [CrawlIdle EXCEPT !.pc = "raised", !.syncs = crawl.syncs,
                                           !.db = crawl.db]
             /\ UNCHANGED store_documents
             /\ store_next_id' \in store_next_id..(store_next_id + Len(records))
    /\ UNCHANGED <<now, budget>>
    /\ NotStore

(***************************************************************************)
(* PRO PIPELINE: tables                                                    *)
(***************************************************************************)
Subs == 1..MaxSubs
Docs == 1..MaxDocs
Periods == 1..MaxPeriods
\* A Delivery Candidate's triple (subscription_pro_id, document_id, period_date).
Keys == Subs \X Docs \X Periods
\* extractions_pro[k] holds the rows whose triple is k, in insertion order; the
\* pair <<k, i>> stands for the serial id of the i-th of them.
RowIds(tbl) == UNION {{<<k, i>> : i \in 1..Len(tbl[k])} : k \in DOMAIN tbl}
RowOf(tbl, id) == tbl[id[1]][id[2]]
NewRow == [summary |-> Null, sent_at |-> Null]
\* The one text the summarization collaborator returns in this model.
SummaryTexts == {"summary"}

\* documents.html_url of the store's documents table, as the pro jobs read it
\* through the documents!inner(...) join.
html_url(docs, d) == docs[d].html_url

\* The rows .eq("is_verified", True).is_("unsubscribed_at", "null") selects.
fetch_active_pro_subscriptions(subs) ==
    {s \in DOMAIN subs : subs[s].is_verified /\ IsNull(subs[s].unsubscribed_at)}

\* if limit: query = query.limit(limit), on a query without ORDER BY: the
\* lists the store may return for the matching rows S.
limited(S, limit) ==
    IF ~IsNull(limit) /\ limit[1] # 0
    THEN UNION {Orders(T) : T \in {U \in SUBSET S :
                    Cardinality(U) = IF limit[1] <= Cardinality(S)
                                     THEN limit[1] ELSE Cardinality(S)}}
    ELSE Orders(S)

\* Mutant: a plain insert, with no conflict target.
upsert_as_plain_insert(tbl, s, d, t) ==
    [tbl EXCEPT ![<<s, d, t>>] = Append(@, NewRow)]

\* Mutant: the conflicting row is replaced by a fresh one (INSERT OR REPLACE).
upsert_as_replace(tbl, s, d, t) ==
    [tbl EXCEPT ![<<s, d, t>>] = <<NewRow>>]

\* Mutant: the payload carries sent_at = NULL, so a conflicting row loses it.
upsert_resetting_sent_at(tbl, s, d, t) ==
    LET k == <<s, d, t>> IN
    IF Len(tbl[k]) > 0
    THEN [tbl EXCEPT ![k] = [i \in DOMAIN @ |-> [@[i] EXCEPT !.sent_at = Null]]]
    ELSE [tbl EXCEPT ![k] = <<NewRow>>]

\* .upsert({subscription_pro_id, document_id, period_date},
\*         on_conflict="subscription_pro_id,document_id,period_date"):
\* INSERT ... ON CONFLICT (triple) DO UPDATE SET <the payload's columns>; the
\* payload holds the triple only, so a conflicting row keeps summary and sent_at.
upsert_extraction_pro(tbl, s, d, t) ==
    LET k == <<s, d, t>> IN
    IF Len(tbl[k]) > 0 THEN tbl
    ELSE [tbl EXCEPT ![k] = <<NewRow>>]

\* The calls after the first one, renumbered from 1.
LaterCalls(failed) == {i - 1 : i \in failed \ {1}}

\* Mutant: the first upsert that raises ends the loop.
RECURSIVE insert_loop_until_failure(_, _, _, _, _)
insert_loop_until_failure(tbl, s, ids, t, failed) ==
    IF ids = <<>> THEN [tbl |-> tbl, inserted |-> 0, attempted |-> <<>>]
    ELSE IF 1 \in failed
         THEN [tbl |-> tbl, inserted |-> 0, attempted |-> <<Head(ids)>>]
    ELSE LET r == insert_loop_until_failure(
                      upsert_extraction_pro(tbl, s, Head(ids), t), s, Tail(ids), t,
                      LaterCalls(failed))
         IN [tbl |-> r.tbl, inserted |-> r.inserted + 1,
             attempted |-> <<Head(ids)>> \o r.attempted]

\* The for loop of insert_extractions_pro; failed is the set of the calls of
\* the upsert, counted from 1, that raise (caught and logged).  attempted
\* lists the ids the upsert was called for, in call order.
RECURSIVE insert_loop(_, _, _, _, _)
insert_loop(tbl, s, ids, t, failed) ==
    IF ids = <<>> THEN [tbl |-> tbl, inserted |-> 0, attempted |-> <<>>]
    ELSE LET d == Head(ids)
             t1 == IF 1 \in failed THEN tbl ELSE upsert_extraction_pro(tbl, s, d, t)
             r == insert_loop(t1, s, Tail(ids), t, LaterCalls(failed))
         IN [tbl |-> r.tbl,
             inserted |-> r.inserted + (IF 1 \in failed THEN 0 ELSE 1),
             attempted |-> <<d>> \o r.attempted]

\* Mutant: the dry_run test is lost.
insert_extractions_pro_in_any_mode(tbl, s, ids, t, dry_run, failed) ==
    insert_loop(tbl, s, ids, t, failed)

insert_extractions_pro(tbl, s, ids, t, dry_run, failed) ==
    IF dry_run THEN [tbl |-> tbl, inserted |-> Len(ids), attempted |-> <<>>]
    ELSE insert_loop(tbl, s, ids, t, failed)

\* Mutant: the summary filter is lost.
fetch_unsent_summarized_or_not(tbl, s, period) ==
    {id \in RowIds(tbl) :
        /\ id[1][1] = s
        /\ IsNull(RowOf(tbl, id).sent_at)
        /\ (IsNull(period) \/ id[1][3] = period[1])}

\* Mutant: the sent_at filter is lost.
fetch_extractions_sent_or_not(tbl, s, period) ==
    {id \in RowIds(tbl) :
        /\ id[1][1] = s
        /\ ~IsNull(RowOf(tbl, id).summary)
        /\ (IsNull(period) \/ id[1][3] = period[1])}

\* period is Null when the caller passes no period_date.
fetch_unsent_extractions_for_subscription(tbl, s, period) ==
    {id \in RowIds(tbl) :
        /\ id[1][1] = s
        /\ ~IsNull(RowOf(tbl, id).summary)
        /\ IsNull(RowOf(tbl, id).sent_at)
        /\ (IsNull(period) \/ id[1][3] = period[1])}

fetch_pending_extractions(tbl, period) ==
    {id \in RowIds(tbl) :
        /\ IsNull(RowOf(tbl, id).summary)
        /\ (IsNull(period) \/ id[1][3] = period[1])}

RECURSIVE mark_rows(_, _, _, _, _)
mark_rows(rows, k, i, ids, t) ==
    IF i > Len(rows) THEN rows
    ELSE mark_rows(IF <<k, i>> \in ids
                   THEN [rows EXCEPT ![i].sent_at = Some(t)] ELSE rows,
                   k, i + 1, ids, t)

\* UPDATE extractions_pro SET sent_at = <now> WHERE id IN (ids)
mark_extractions_sent(tbl, ids, t) ==
    [k \in DOMAIN tbl |-> mark_rows(tbl[k], k, 1, ids, t)]

\* UPDATE extractions_pro SET summary = <summary> WHERE id = <id>
update_extraction_summary(tbl, id, summary) ==
    [tbl EXCEPT ![id[1]][id[2]].summary = Some(summary)]

(***************************************************************************)
(* PRO PIPELINE: jobs.  A process runs one job at a time; a job's steps    *)
(* are its calls to the store and to the collaborators, so that jobs of    *)
(* different processes (cron scripts, the webhook server's background      *)
(* tasks) interleave between those calls.                                  *)
(***************************************************************************)
Procs == 1..MaxProcs

\* DEFAULT_TOP_K of sync_pro_digests.py, the --top-k default.
DEFAULT_TOP_K == 10

ZeroStats ==
    [sent |-> 0, failed |-> 0, skipped |-> 0,
     subscriptions |-> 0, documents |-> 0, errors |-> 0,
     processed |-> 0, success |-> 0]

\* pc: "done" (no job, or the job returned), "raised" (the job ended by an
\* exception nothing caught), or the job's next step.
\* document_ids: what is left of the search's answer while its documents are
\* upserted; inserted: the upserts of that answer that returned; upserted:
\* their documents.  documents: the documents rows a query joined to the
\* extractions it returned.
IdleProc ==
    [job |-> "idle", pc |-> "done", period |-> Null, dry_run |-> FALSE,
     sub |-> Null, queue |-> <<>>, exts |-> {}, stats |-> ZeroStats, log |-> <<>>,
     resend_api_key |-> TRUE, top_k |-> DEFAULT_TOP_K,
     document_ids |-> <<>>, inserted |-> 0, upserted |-> {}, documents |-> <<>>,
     sent_at |-> Null]

\* A new job starts on the first process that runs none (processes are
\* interchangeable), and counts against MaxJobs.
Free(p) == procs[p].pc \in {"done", "raised"}
CanStart(p) ==
    /\ Free(p)
    /\ \A q \in Procs : q < p => ~Free(q)
    /\ budget > 0
    /\ budget' = budget - 1

\* End of one iteration of a job's for loop.
NextItem(pr, loop_pc) ==
    [pr EXCEPT !.queue = Tail(@), !.exts = {},
               !.document_ids = <<>>, !.inserted = 0, !.upserted = {},
               !.sent_at = Null,
               !.pc = IF Tail(pr.queue) = <<>> THEN "done" ELSE loop_pc]

NotPro == UNCHANGED <<crawlVars, stdVars, matchVars, extractVars>>

\* What the job's logger lines tell of the subscriber at the head of the
\* queue: the outcome and the documents or rows it is about.
Logged(pr, outcome, items) ==
    [pr EXCEPT !.log = Append(@, [sub |-> Head(pr.queue), outcome |-> outcome,
                                  items |-> items])]

\* History of a summary update: the job's log keeps the update of a row that
\* was already marked Sent when the summary was written.
SummaryWritten(pr, sub, id) ==
    IF IsNull(RowOf(extractions_pro, id).sent_at) THEN pr
    ELSE [pr EXCEPT !.log = Append(@, [sub |-> sub, outcome |-> "summary_rewritten",
                                       items |-> {id}])]

\* Mutant: the failed search ends the run instead of the iteration.
search_failed_ends_run(pr) ==
    [Logged(pr, "search_failed", {}) EXCEPT !.stats.errors = @ + 1, !.pc = "raised"]

\* except Exception: logger.error(...); stats["errors"] += 1; continue
search_failed(pr) ==
    NextItem([Logged(pr, "search_failed", {}) EXCEPT !.stats.errors = @ + 1], "search")

KeysOf(ids) == {id[1] : id \in ids}

\* The mail transport accepted a message holding the rows ids.
Accept(ids) ==
    /\ \A k \in KeysOf(ids) : delivered[k] < MaxDeliver
    /\ delivered' = [k \in DOMAIN delivered |->
                        IF k \in KeysOf(ids) THEN delivered[k] + 1 ELSE delivered[k]]

\* The upserts of the triples ks returned without raising.
Register(ks) ==
    registered' = [k \in DOMAIN registered |->
                      IF k \in ks /\ registered[k] < MaxRegister
                      THEN registered[k] + 1 ELSE registered[k]]

---------------------------------------------------------------------------
\* sync_pro_digests(period_date, top_k, match_threshold, dry_run)

\* A row of the search's answer that holds no "document_id".
NoDocumentId == 0

\* The answers of the search: lists of at most n rows, each the document id
\* it holds, a document possibly more than once.  The search is handed
\* matchCount = top_k and the list it returns is used as it comes.
SearchResults(docs, n) == SeqsUpTo(DOMAIN docs \cup {NoDocumentId}, n)

\* get_supabase_client, then fetch_active_pro_subscriptions, outside any try.
SyncStart(p, period, dry, top_k) ==
    /\ CanStart(p)
    /\ LET begun == [IdleProc EXCEPT !.job = "sync", !.period = Some(period),
                                     !.dry_run = dry, !.top_k = top_k]
       IN \/ \* create_client or the subscriptions query raises
             procs' = [procs EXCEPT ![p] = [begun EXCEPT !.pc = "raised"]]
          \/ \E q \in Orders(fetch_active_pro_subscriptions(subscriptions_pro)) :
                procs' = [procs EXCEPT ![p] =
                            [begun EXCEPT !.queue = q,
                                          !.pc = IF q = <<>> THEN "done" ELSE "search"]]
    /\ UNCHANGED <<subscriptions_pro, storeVars, registered, extractions_pro, delivered, now>>
    /\ NotPro

\* stats["subscriptions"] += 1; stats["documents"] += inserted, and the next
\* subscriber.
synced(pr, inserted, upserted) ==
    NextItem([Logged(pr, "synced", upserted)
                EXCEPT !.stats.subscriptions = @ + 1,
                       !.stats.documents = @ + inserted], "search")

\* One iteration of the loop over subscriptions up to the first store call:
\* semantic_search, the list of its document ids, and insert_extractions_pro
\* in a dry run.
\* results: what semantic_search returns when it returns.
SyncSub(p, results) ==
    /\ procs[p].job = "sync" /\ procs[p].pc = "search"
    /\ LET pr == procs[p] IN
          \/ \* semantic_search raises: counted, next subscriber
             /\ procs' = [procs EXCEPT ![p] = search_failed(pr)]
             /\ UNCHANGED extractions_pro
          \/ \* no results
             /\ results = <<>>
             /\ procs' = [procs EXCEPT ![p] =
                            NextItem(Logged(pr, "no_results", {}), "search")]
             /\ UNCHANGED extractions_pro
          \/ \* a row without "document_id": the KeyError leaves the job
             /\ NoDocumentId \in Range(results)
             /\ procs' = [procs EXCEPT ![p] =
                            [Logged(pr, "raised", {}) EXCEPT !.pc = "raised"]]
             /\ UNCHANGED extractions_pro
          \/ /\ results # <<>> /\ NoDocumentId \notin Range(results)
             /\ IF pr.dry_run
                THEN LET r == insert_extractions_pro(
                                  extractions_pro, Head(pr.queue), results,
                                  pr.period[1], pr.dry_run, {})
                     IN /\ extractions_pro' = r.tbl
                        /\ procs' = [procs EXCEPT ![p] = synced(pr, r.inserted, {})]
                ELSE /\ procs' = [procs EXCEPT ![p].document_ids = results,
                                               ![p].pc = "insert"]
                     /\ UNCHANGED extractions_pro
    /\ UNCHANGED <<subscriptions_pro, storeVars, budget, delivered, now, registered>>
    /\ NotPro

\* One pass of the for loop of insert_extractions_pro, and after the last
\* one the statistics of the subscriber.
SyncInsert(p) ==
    /\ procs[p].job = "sync" /\ procs[p].pc = "insert"
    /\ LET pr == procs[p]
           sub == Head(pr.queue)
           d == Head(pr.document_ids)
           after(inserted, upserted) ==
               IF Tail(pr.document_ids) = <<>>
               THEN synced(pr, inserted, upserted)
               ELSE [pr EXCEPT !.document_ids = Tail(@), !.inserted = inserted,
                               !.upserted = upserted]
       IN \/ \* the upsert returns
             /\ extractions_pro' =
                    upsert_extraction_pro(extractions_pro, sub, d, pr.period[1])
             /\ Register({<<sub, d, pr.period[1]>>})
             /\ procs' = [procs EXCEPT ![p] = after(pr.inserted + 1, pr.upserted \cup {d})]
          \/ \* the upsert raises: logged, next document
             /\ procs' = [procs EXCEPT ![p] = after(pr.inserted, pr.upserted)]
             /\ UNCHANGED <<extractions_pro, registered>>
    /\ UNCHANGED <<subscriptions_pro, storeVars, budget, delivered, now>>
    /\ NotPro

---------------------------------------------------------------------------
\* generate_pro_summaries(period_date, limit, dry_run)

\* --limit: absent, or an int; 0 is falsy and means no limit.
SumLimits == {Null} \cup {Some(l) : l \in 0..MaxSumLimit}

\* get_supabase_client, get_firecrawl_client, then fetch_pending_extractions,
\* outside any try.
SumStart(p, period, limit, dry) ==
    /\ CanStart(p)
    /\ LET begun == [IdleProc EXCEPT !.job = "summarize", !.period = period,
                                     !.dry_run = dry]
       IN \/ \* FIRECRAWL_API_KEY is not set (ValueError), or create_client or
             \* the query raises
             procs' = [procs EXCEPT ![p] = [begun EXCEPT !.pc = "raised"]]
          \/ \E q \in limited(fetch_pending_extractions(extractions_pro, period), limit) :
                procs' = [procs EXCEPT ![p] =
                            [begun EXCEPT !.queue = q, !.documents = store_documents,
                                          !.pc = IF q = <<>> THEN "done" ELSE "summary"]]
    /\ UNCHANGED <<subscriptions_pro, storeVars, registered, extractions_pro, delivered, now>>
    /\ NotPro

\* if not html_url: stats["errors"] += 1; continue
no_html_url(pr) == NextItem([pr EXCEPT !.stats.errors = @ + 1], "summary")

\* Mutant: a failed summary ends the run.
summary_failed_ends_run(pr) ==
    [pr EXCEPT !.stats.processed = @ + 1, !.stats.errors = @ + 1, !.pc = "raised"]

\* stats["processed"] += 1, then stats["errors"] += 1 and the next extraction
summary_failed(pr) ==
    NextItem([pr EXCEPT !.stats.processed = @ + 1, !.stats.errors = @ + 1], "summary")

SumOne(p) ==
    /\ procs[p].job = "summarize" /\ procs[p].pc = "summary"
    /\ LET pr == procs[p]
           id == Head(pr.queue)
           has_url == ~IsNull(html_url(pr.documents, id[1][2]))
           has_title == ~IsNull(pr.documents[id[1][2]].title)
       IN \/ \* document has no html_url
             /\ ~has_url
             /\ procs' = [procs EXCEPT ![p] = no_html_url(pr)]
             /\ UNCHANGED extractions_pro
          \/ \* logger.info, before the dry-run test and the summarization
             \* call: doc.get('title', doc['id'])[:50] with title NULL, the
             \* TypeError leaves the job
             /\ has_url /\ ~has_title
             /\ procs' = [procs EXCEPT ![p].pc = "raised"]
             /\ UNCHANGED extractions_pro
          \/ /\ has_url /\ has_title /\ pr.dry_run
             /\ procs' = [procs EXCEPT ![p] =
                            NextItem([pr EXCEPT !.stats.processed = @ + 1,
                                                !.stats.success = @ + 1], "summary")]
             /\ UNCHANGED extractions_pro
          \/ \* generate_summary returns None, or update_extraction_summary fails
             /\ has_url /\ has_title /\ ~pr.dry_run
             /\ procs' = [procs EXCEPT ![p] = summary_failed(pr)]
             /\ UNCHANGED extractions_pro
          \/ \* summary generated, update_extraction_summary succeeds
             /\ has_url /\ has_title /\ ~pr.dry_run
             /\ \E s \in SummaryTexts :
                    extractions_pro' = update_extraction_summary(extractions_pro, id, s)
             /\ procs' = [procs EXCEPT ![p] =
                            NextItem([SummaryWritten(pr, id[1][1], id)
                                        EXCEPT !.stats.processed = @ + 1,
                                               !.stats.success = @ + 1], "summary")]
    /\ UNCHANGED <<subscriptions_pro, storeVars, registered, budget, delivered, now>>
    /\ NotPro

---------------------------------------------------------------------------
\* send_pro_digests(period_date, dry_run)

\* resend_api_key: whether RESEND_API_KEY is set in the job's environment.
SendStart(p, period, dry, resend_api_key) ==
    /\ CanStart(p)
    /\ LET begun == [IdleProc EXCEPT !.job = "send", !.period = Some(period),
                                     !.dry_run = dry,
                                     !.resend_api_key = resend_api_key]
       IN \/ \* create_client or the subscriptions query raises
             procs' = [procs EXCEPT ![p] = [begun EXCEPT !.pc = "raised"]]
          \/ \E q \in Orders(fetch_active_pro_subscriptions(subscriptions_pro)) :
                procs' = [procs EXCEPT ![p] =
                            [begun EXCEPT !.queue = q,
                                          !.pc = IF q = <<>> THEN "done" ELSE "fetch"]]
    /\ UNCHANGED <<subscriptions_pro, storeVars, registered, extractions_pro, delivered, now>>
    /\ NotPro

\* The query of fetch_unsent_extractions_for_subscription raises: the
\* exception leaves send_pro_digests, the remaining subscribers are not
\* looked at and no stats are returned.
fetch_raised(pr) == [Logged(pr, "raised", {}) EXCEPT !.pc = "raised"]

\* fetch_unsent_extractions_for_subscription for the next subscriber.
SendFetch(p) ==
    /\ procs[p].job = "send" /\ procs[p].pc = "fetch"
    /\ LET pr == procs[p]
           exts == fetch_unsent_extractions_for_subscription(
                       extractions_pro, Head(pr.queue), pr.period)
       IN \/ \* the query raises: nothing in send_pro_digests catches it
             procs' = [procs EXCEPT ![p] = fetch_raised(pr)]
          \/ /\ exts = {}
             /\ procs' = [procs EXCEPT ![p] =
                            NextItem([Logged(pr, "skipped", {})
                                        EXCEPT !.stats.skipped = @ + 1], "fetch")]
          \/ /\ exts # {}
             /\ procs' = [procs EXCEPT ![p].exts = exts, ![p].pc = "email"]
    /\ UNCHANGED <<subscriptions_pro, storeVars, registered, budget, extractions_pro, delivered, now>>
    /\ NotPro

\* Mutant: the failed send is not counted.
send_failed_not_counted(pr) ==
    NextItem(Logged(pr, "send_raised", pr.exts), "fetch")

\* Mutant: the rows are marked although send_email returned False.
send_failed_then_marks(pr) ==
    [Logged(pr, "send_raised", pr.exts) EXCEPT !.stats.failed = @ + 1, !.pc = "mark"]

\* send_email caught the transport's exception and returned False:
\* else: stats["failed"] += 1, and the next subscriber.
send_failed(pr) ==
    NextItem([Logged(pr, "send_raised", pr.exts) EXCEPT !.stats.failed = @ + 1], "fetch")

\* send_email(sub["email"], subject, html, dry_run)
SendEmail(p) ==
    /\ procs[p].job = "send" /\ procs[p].pc = "email"
    /\ LET pr == procs[p] IN
          \/ \* dry run: send_email returns True without calling the transport
             /\ pr.dry_run
             /\ procs' = [procs EXCEPT ![p] =
                            NextItem([Logged(pr, "dry_run", pr.exts)
                                        EXCEPT !.stats.sent = @ + 1], "fetch")]
             /\ UNCHANGED delivered
          \/ \* RESEND_API_KEY is not set: False without calling the transport
             /\ ~pr.dry_run /\ ~pr.resend_api_key
             /\ procs' = [procs EXCEPT ![p] =
                            NextItem([Logged(pr, "no_api_key", pr.exts)
                                        EXCEPT !.stats.failed = @ + 1], "fetch")]
             /\ UNCHANGED delivered
          \/ \* the transport accepts the message
             /\ ~pr.dry_run /\ pr.resend_api_key
             /\ Accept(pr.exts)
             /\ procs' = [procs EXCEPT ![p] =
                            [Logged(pr, "sent", pr.exts)
                               EXCEPT !.stats.sent = @ + 1, !.pc = "mark"]]
          \/ \* resend.Emails.send raises
             /\ ~pr.dry_run /\ pr.resend_api_key
             /\ procs' = [procs EXCEPT ![p] = send_failed(pr)]
             /\ UNCHANGED delivered
    /\ UNCHANGED <<subscriptions_pro, storeVars, registered, budget, extractions_pro, now>>
    /\ NotPro

\* mark_extractions_sent(supabase, extraction_ids), its request being
\* built: {"sent_at": datetime.now().isoformat()} is evaluated here, before
\* execute() sends the update.
SendMark(p) ==
    /\ procs[p].job = "send" /\ procs[p].pc = "mark"
    /\ \/ /\ now <= MaxClock
          /\ procs' = [procs EXCEPT ![p].sent_at = Some(now), ![p].pc = "update"]
          /\ now' = now + 1
       \/ \* the request raises and the reading is stored nowhere: logged,
          \* False returned
          /\ procs' = [procs EXCEPT ![p] = NextItem(procs[p], "fetch")]
          /\ UNCHANGED now
    /\ UNCHANGED <<subscriptions_pro, storeVars, registered, budget,
                   extractions_pro, delivered>>
    /\ NotPro

\* mark_extractions_sent, execute(): the update lands with the reading taken
\* when the request was built; the function's result is ignored.
SendMarkUpdate(p) ==
    /\ procs[p].job = "send" /\ procs[p].pc = "update"
    /\ LET pr == procs[p] IN
          \/ extractions_pro' = mark_extractions_sent(extractions_pro, pr.exts,
                                                      pr.sent_at[1])
          \/ \* the update raises: logged, False returned
             UNCHANGED extractions_pro
    /\ procs' = [procs EXCEPT ![p] = NextItem(procs[p], "fetch")]
    /\ UNCHANGED <<subscriptions_pro, storeVars, registered, budget, delivered, now>>
    /\ NotPro

---------------------------------------------------------------------------
\* process_pro_onboarding(sub), the background task of /webhooks/pro-onboard.
\* period is datetime.now()'s date.

\* get_supabase, get_firecrawl, and step 1: semantic_search and the list of
\* its document ids.
\* results: what semantic_search returns when it returns.
OnbStart(p, sub, period, results) ==
    /\ CanStart(p)
    /\ LET pr == [IdleProc EXCEPT !.job = "onboard", !.period = Some(period),
                                  !.sub = Some(sub)]
       IN \/ \* FIRECRAWL_API_KEY is not set: the ValueError leaves the task
             procs' = [procs EXCEPT ![p] = [pr EXCEPT !.pc = "raised"]]
          \/ \* the search raises: return
             procs' = [procs EXCEPT ![p] = pr]
          \/ \* no results: return
             /\ results = <<>>
             /\ procs' = [procs EXCEPT ![p] = pr]
          \/ \* a row without "document_id": the KeyError leaves the task
             /\ NoDocumentId \in Range(results)
             /\ procs' = [procs EXCEPT ![p] = [pr EXCEPT !.pc = "raised"]]
          \/ /\ results # <<>> /\ NoDocumentId \notin Range(results)
             /\ procs' = [procs EXCEPT ![p] =
                            [pr EXCEPT !.document_ids = results, !.pc = "insert"]]
    /\ UNCHANGED <<subscriptions_pro, storeVars, delivered, now,
                   extractions_pro, registered>>
    /\ NotPro

\* Step 2, one pass of the for loop: the upsert of one document.
OnbInsert(p) ==
    /\ procs[p].job = "onboard" /\ procs[p].pc = "insert"
    /\ LET pr == procs[p]
           d == Head(pr.document_ids)
       IN /\ \/ \* the upsert returns
                /\ extractions_pro' =
                       upsert_extraction_pro(extractions_pro, pr.sub[1], d, pr.period[1])
                /\ Register({<<pr.sub[1], d, pr.period[1]>>})
             \/ \* the upsert raises: logged, next document
                UNCHANGED <<extractions_pro, registered>>
          /\ procs' = [procs EXCEPT ![p].document_ids = Tail(@),
                                    ![p].pc = IF Tail(pr.document_ids) = <<>>
                                              THEN "pending" ELSE "insert"]
    /\ UNCHANGED <<subscriptions_pro, storeVars, budget, delivered, now>>
    /\ NotPro

\* Step 3, the query: this subscriber's rows of the period with summary NULL.
OnbFetch(p) ==
    /\ procs[p].job = "onboard" /\ procs[p].pc = "pending"
    /\ LET pr == procs[p]
           rows == {id \in fetch_pending_extractions(extractions_pro, pr.period) :
                      id[1][1] = pr.sub[1]}
       IN \/ \* the query raises: the background task ends
             procs' = [procs EXCEPT ![p].pc = "raised"]
          \/ \E q \in Orders(rows) :
                procs' = [procs EXCEPT ![p].queue = q,
                                       ![p].documents = store_documents,
                                       ![p].pc = IF q = <<>> THEN "done" ELSE "summary"]
    /\ UNCHANGED <<subscriptions_pro, storeVars, registered, budget, extractions_pro, delivered, now>>
    /\ NotPro

\* After a row of step 3: more rows, or step 4 when summaries is not empty.
OnbNext(pr, summaries) ==
    [pr EXCEPT !.queue = Tail(@), !.exts = summaries,
               !.pc = IF Tail(pr.queue) # <<>> THEN "summary"
                      ELSE IF summaries # {} THEN "email" ELSE "done"]

\* Step 3, one row: generate_summary and the summary update.
OnbSummarize(p) ==
    /\ procs[p].job = "onboard" /\ procs[p].pc = "summary"
    /\ LET pr == procs[p]
           id == Head(pr.queue)
           has_url == ~IsNull(html_url(pr.documents, id[1][2]))
       IN \/ \* no html_url, no summary returned, or the update raises
             /\ procs' = [procs EXCEPT ![p] = OnbNext(pr, pr.exts)]
             /\ UNCHANGED extractions_pro
          \/ /\ has_url
             /\ \E s \in SummaryTexts :
                    extractions_pro' = update_extraction_summary(extractions_pro, id, s)
             /\ procs' = [procs EXCEPT ![p] =
                            OnbNext(SummaryWritten(pr, id[1][1], id), pr.exts \cup {id})]
    /\ UNCHANGED <<subscriptions_pro, storeVars, registered, budget, delivered, now>>
    /\ NotPro

\* Step 4: send_email(sub.email, subject, html)
OnbEmail(p) ==
    /\ procs[p].job = "onboard" /\ procs[p].pc = "email"
    /\ \/ /\ Accept(procs[p].exts)
          /\ procs' = [procs EXCEPT ![p].pc = "mark"]
       \/ /\ procs' = [procs EXCEPT ![p].pc = "done"]
          /\ UNCHANGED delivered
    /\ UNCHANGED <<subscriptions_pro, storeVars, registered, budget, extractions_pro, now>>
    /\ NotPro

\* Step 4, marking, the request being built: datetime.now().isoformat() is
\* evaluated here, before execute() sends the update for the ids of
\* summaries.
OnbMark(p) ==
    /\ procs[p].job = "onboard" /\ procs[p].pc = "mark"
    /\ \/ /\ now <= MaxClock
          /\ procs' = [procs EXCEPT ![p].sent_at = Some(now), ![p].pc = "update"]
          /\ now' = now + 1
       \/ \* the request raises and the reading is stored nowhere: logged
          /\ procs' = [procs EXCEPT ![p].pc = "done"]
          /\ UNCHANGED now
    /\ UNCHANGED <<subscriptions_pro, storeVars, registered, budget,
                   extractions_pro, delivered>>
    /\ NotPro

\* Step 4, marking, execute(): the update lands with the reading taken when
\* the request was built.
OnbMarkUpdate(p) ==
    /\ procs[p].job = "onboard" /\ procs[p].pc = "update"
    /\ \/ extractions_pro' = mark_extractions_sent(extractions_pro, procs[p].exts,
                                                   procs[p].sent_at[1])
       \/ \* the update raises: logged
          UNCHANGED extractions_pro
    /\ procs' = [procs EXCEPT ![p].pc = "done", ![p].sent_at = Null]
    /\ UNCHANGED <<subscriptions_pro, storeVars, registered, budget, delivered, now>>
    /\ NotPro

---------------------------------------------------------------------------
\* The other groups' variables while the pro pipeline runs.
CrawlOff == [pc |-> "off"]
StdOff == [pc |-> "off"]
ExtractOff == sb_extractions = <<>> /\ extract = [pc |-> "off"]
StoreOff == store_documents = <<>> /\ store_next_id = 1

\* The rows of document d that differ in the columns the pro jobs read: a
\* record has an html_url when the search result named an HTML file, and a
\* NULL title when it held "title": null; the title is read only of a row
\* that has an html_url.
DocumentRows(d) ==
    {StoredDocument(d, FALSE, Some("title"), 1),
     StoredDocument(d, TRUE, Some("title"), 1),
     StoredDocument(d, TRUE, Null, 1)}

\* The columns of a subscriptions_pro row the jobs filter on: an active
\* subscription, one not verified, one unsubscribed.
SubscriptionProRows ==
    {[is_verified |-> TRUE, unsubscribed_at |-> Null],
     [is_verified |-> FALSE, unsubscribed_at |-> Null],
     [is_verified |-> TRUE, unsubscribed_at |-> Some(0)]}

\* The store before any job ran: subscriptions and documents exist, no
\* Delivery Candidate does.
\* docs: the ids of the documents table's rows.
InitStoreOf(docs) ==
    /\ subscriptions_pro \in [Subs -> SubscriptionProRows]
    /\ store_documents \in
          {t \in [docs -> UNION {DocumentRows(d) : d \in docs}] :
              \A d \in docs : t[d] \in DocumentRows(d)}
    /\ store_next_id = Cardinality(docs) + 1
    /\ extractions_pro = [k \in Subs \X docs \X Periods |-> <<>>]
    /\ procs = [p \in Procs |-> IdleProc]
    /\ delivered = [k \in Subs \X docs \X Periods |-> 0]
    /\ registered = [k \in Subs \X docs \X Periods |-> 0]
    /\ now = 1
    /\ crawl = CrawlIdle /\ documents = <<>> /\ next_id = 1 /\ ingest = <<>>
    /\ subscriptions = <<>> /\ std = StdOff /\ std_delivered = <<>>
    /\ m_in = <<>> /\ m_out = <<>>
    /\ ExtractOff

InitStore == InitStoreOf(Docs)
InitPro == InitStore /\ budget = MaxJobs
InitSeq == InitStore /\ budget = MaxSeqJobs

BatchStart ==
    \/ \E p \in Procs, t \in Periods, dry \in BOOLEAN : SyncStart(p, t, dry, DEFAULT_TOP_K)
    \/ \E p \in Procs, t \in Periods, limit \in SumLimits, dry \in BOOLEAN :
          SumStart(p, Some(t), limit, dry)
    \/ \E p \in Procs, limit \in SumLimits, dry \in BOOLEAN : SumStart(p, Null, limit, dry)
    \/ \E p \in Procs, t \in Periods, dry \in BOOLEAN, key \in BOOLEAN :
          SendStart(p, t, dry, key)

BatchStep ==
    \/ \E p \in Procs, results \in SearchResults(store_documents, MaxAnswer) :
          SyncSub(p, results)
    \/ \E p \in Procs : SyncInsert(p)
    \/ \E p \in Procs : SumOne(p)
    \/ \E p \in Procs : SendFetch(p)
    \/ \E p \in Procs : SendEmail(p)
    \/ \E p \in Procs : SendMark(p)
    \/ \E p \in Procs : SendMarkUpdate(p)

OnboardStart ==
    \E p \in Procs, s \in Subs, t \in Periods,
       results \in SearchResults(store_documents, MaxAnswer) : OnbStart(p, s, t, results)

OnboardStep ==
    \/ \E p \in Procs : OnbInsert(p)
    \/ \E p \in Procs : OnbFetch(p)
    \/ \E p \in Procs : OnbSummarize(p)
    \/ \E p \in Procs : OnbEmail(p)
    \/ \E p \in Procs : OnbMark(p)
    \/ \E p \in Procs : OnbMarkUpdate(p)

\* sync_to_supabase run as one of the jobs: it writes a row of a document
\* the store has anew.
StoreSync ==
    \E d \in Docs : \E row \in DocumentRows(d) : SyncToSupabase(<<row>>, 100, TRUE)

\* The batch jobs, the syncs and the onboarding tasks of all processes,
\* interleaved.
NextPro ==
    BatchStart \/ BatchStep \/ OnboardStart \/ OnboardStep \/ StoreSync \/ SyncBatch

\* The batch jobs alone, run one after the other as the scheduled scripts are:
\* a job starts when no other is running.  No sync writes the documents
\* table meanwhile.
NextSeq == ((\A p \in Procs : Free(p)) /\ BatchStart) \/ BatchStep

Spec == InitPro /\ [][NextPro]_vars
SpecSeq == InitSeq /\ [][NextSeq]_vars

\* The selector alone, over a documents table of MaxSelDocs rows and with
\* --top-k in 1..MaxTopK.
SelDocs == 1..MaxSelDocs
\* The selector reads no column of the documents table.
InitSel ==
    /\ InitStoreOf(SelDocs)
    /\ \A d \in SelDocs :
          store_documents[d] = StoredDocument(d, TRUE, Some("title"), 1)
    /\ budget = MaxSelRuns
SelStart ==
    \E p \in Procs, t \in Periods, dry \in BOOLEAN, top_k \in 1..MaxTopK :
        SyncStart(p, t, dry, top_k)
SelStep ==
    \/ \E p \in Procs, results \in SearchResults(store_documents, MaxSelAnswer) :
          SyncSub(p, results)
    \/ \E p \in Procs : SyncInsert(p)
NextSel == SelStart \/ SelStep
SpecSel == InitSel /\ [][NextSel]_vars

(***************************************************************************)
(* CRAWLER AND CATALOG (crawler/govinfo.py)                                *)
(***************************************************************************)
PAGE_SIZE == 100

Dates == 1..MaxDates

\* One entry of the response's resultSet: its fieldMap, with Null for a key
\* the response does not hold.  The value held under "title" is a string,
\* Some("title-1"), or JSON null, Null.
RawRecords ==
    {[packageid |-> Some("PKG-A"), granuleid |-> g, pdffile |-> Null,
      htmlfile |-> IF IsNull(g) THEN Null ELSE Some("a.htm"),
      title |-> Some(t), collectionCode |-> Some("FR"), teaser |-> Null,
      line1 |-> "line1", line2 |-> "line2"] :
        g \in {Null, Some("GR-1")}, t \in {Some("title-1"), Null}}

\* The pages the search may answer with: at most MaxPageLen records.
Pages == SeqsUpTo(RawRecords, MaxPageLen)

\* The iTotalCount values the search may report: the multiples of the page
\* size, their neighbours, the spec's example of 250, and the largest.
TotalCounts ==
    {0, 1, PAGE_SIZE - 1, PAGE_SIZE, PAGE_SIZE + 1, 2 * PAGE_SIZE,
     (5 * PAGE_SIZE) \div 2, MaxTotal}

\* dict.get(key, default)
Get(x, default) == IF IsNull(x) THEN default ELSE x[1]

\* bool(x) of a str | None taken from the fieldMap: None and "" are falsy.
str_truthy(x) == ~IsNull(x) /\ x[1] # ""

\* title: field_map.get("title", line1) is the value held under the key,
\* None when it is JSON null, and line1 only when the key is absent.
parse_document(result, query_date) ==
    LET package_id == Get(result.packageid, "")
        granule_id == result.granuleid
    IN [package_id |-> package_id,
        title |-> Get(result.title, Some(result.line1)),
        doc_class |-> Get(result.collectionCode, ""),
        publish_date |-> query_date,
        metadata |-> result.line2,
        pdf_url |-> IF ~str_truthy(result.pdffile) THEN Null
                    ELSE Some(<<BASE_URL, "content", "pkg", package_id, result.pdffile[1]>>),
        html_url |-> IF ~str_truthy(result.htmlfile) THEN Null
                     ELSE Some(<<BASE_URL, "content", "pkg", package_id, result.htmlfile[1]>>),
        details_url |-> IF ~str_truthy(granule_id)
                        THEN <<BASE_URL, "app", "details", package_id>>
                        ELSE <<BASE_URL, "app", "details", package_id, granule_id[1]>>,
        granule_id |-> granule_id,
        summary |-> Get(result.teaser, "")]

\* Mutant: a record without a package id is dropped.
RECURSIVE parse_page_dropping_unidentified(_, _)
parse_page_dropping_unidentified(results, query_date) ==
    IF results = <<>> THEN <<>>
    ELSE (IF IsNull(Head(results).packageid) THEN <<>>
          ELSE <<parse_document(Head(results), query_date)>>)
             \o parse_page_dropping_unidentified(Tail(results), query_date)

\* for result in results: yield parse_document(result, query_date)
RECURSIVE parse_page(_, _)
parse_page(results, query_date) ==
    IF results = <<>> THEN <<>>
    ELSE <<parse_document(Head(results), query_date)>>
             \o parse_page(Tail(results), query_date)

\* Mutant: the loop goes on while offset * PAGE_SIZE <= total_count.
loop_ends_strictly_after(offset, total_count) == offset * PAGE_SIZE > total_count

\* if offset * PAGE_SIZE >= total_count: break   (offset already incremented)
loop_ends_after(offset, total_count) == offset * PAGE_SIZE >= total_count

\* INSERT OR REPLACE INTO documents (...) VALUES (...): the conflicting rows
\* are deleted and the new row takes the next AUTOINCREMENT id.
insert_or_replace(tbl, id, doc, crawled_at) ==
    Append(SelectSeq(tbl, LAMBDA row : ~conflicts(row, doc)),
           [id |-> id, package_id |-> doc.package_id, granule_id |-> doc.granule_id,
            title |-> doc.title, doc_class |-> doc.doc_class,
            publish_date |-> doc.publish_date, metadata |-> doc.metadata,
            pdf_url |-> doc.pdf_url, html_url |-> doc.html_url,
            details_url |-> doc.details_url, summary |-> doc.summary,
            crawled_at |-> crawled_at])

RECURSIVE save_documents(_, _, _, _)
save_documents(tbl, id, docs, crawled_at) ==
    IF docs = <<>> THEN [tbl |-> tbl, next_id |-> id]
    ELSE save_documents(insert_or_replace(tbl, id, Head(docs), crawled_at),
                        id + 1, Tail(docs), crawled_at)

NotCrawl == UNCHANGED <<proVars, storeVars, stdVars, matchVars, extractVars>>

\* What the history keeps of a finished crawl_day / crawl_range call.
Run(c, saved, crawled_at) ==
    [start_date |-> c.start_date[1], end_date |-> c.end_date[1], docs |-> c.docs,
     saved |-> saved, crawled_at |-> crawled_at]

\* Mutant: a range's documents carry its last day.
query_date_end(start_date, end_date) == end_date

\* query_date = start_date if start_date == end_date else start_date
query_date_of(start_date, end_date) ==
    IF start_date = end_date THEN start_date ELSE start_date

\* export_to_json's read: date is Null when --date is not given.
export_to_json(tbl, date) ==
    IF IsNull(date) THEN tbl
    ELSE SelectSeq(tbl, LAMBDA row : row.publish_date = date[1])

\* crawl_day(date) is CrawlStart(date, date, FALSE), crawl_range(start, end)
\* is CrawlStart(start, end, FALSE), crawl_and_sync(supabase, date) is
\* CrawlStart(date, date, TRUE): init_db, then the generator's first lines.
CrawlStart(start_date, end_date, sync) ==
    /\ crawl.pc \in {"idle", "raised"}
    /\ Len(ingest) < MaxCrawls
    /\ sync => crawl.syncs < MaxSyncs
    /\ crawl' = [CrawlIdle EXCEPT !.pc = "fetch", !.start_date = Some(start_date),
                                  !.end_date = Some(end_date),
                                  !.query_date =
                                      Some(query_date_of(start_date, end_date)),
                                  !.sync = sync, !.syncs = crawl.syncs,
                                  !.db = TRUE]
    /\ UNCHANGED <<documents, next_id, ingest, now>>
    /\ NotCrawl

\* Mutant: every response's count replaces the one held.
capture_every_total_count(total_count, iTotalCount) == iTotalCount

\* if total_count is None: total_count = data.get("iTotalCount", 0)
capture_total_count(total_count, iTotalCount) ==
    IF IsNull(total_count) THEN iTotalCount ELSE total_count[1]

\* Mutant: an empty page does not end the loop.
empty_page_ignored(results) == FALSE

\* if not results: break
no_results(results) == results = <<>>

\* One pass of the while loop whose fetch_search_results returns a response
\* of resultSet results and count iTotalCount.
\* recount: a response after the first reported another iTotalCount than
\* the first did.
CrawlFetch(results, iTotalCount) ==
    /\ crawl.pc = "fetch"
    /\    LET total_count == capture_total_count(crawl.total_count, iTotalCount)
              seen == [crawl EXCEPT !.requests = Append(@, crawl.offset),
                                    !.pages = Append(@, results),
                                    !.total_count = Some(total_count),
                                    !.recount = @ \/ (~IsNull(crawl.total_count)
                                                      /\ iTotalCount # crawl.total_count[1])]
          IN crawl' =
               IF no_results(results) THEN [seen EXCEPT !.pc = "save"]
               ELSE [seen EXCEPT
                       !.docs = @ \o parse_page(results, crawl.query_date[1]),
                       !.offset = @ + 1,
                       !.pc = IF loop_ends_after(crawl.offset + 1, total_count)
                              THEN "save" ELSE "fetch"]
    /\ UNCHANGED <<documents, next_id, ingest, now>>
    /\ NotCrawl

\* raise_for_status raises httpx.HTTPStatusError: logged, the loop ends.
CrawlHttpError ==
    /\ crawl.pc = "fetch"
    /\ crawl' = [crawl EXCEPT !.requests = Append(@, crawl.offset),
                              !.http_error = TRUE, !.pc = "save"]
    /\ UNCHANGED <<documents, next_id, ingest, now>>
    /\ NotCrawl

\* The request raises anything else (a timeout, a connection error): the
\* except clause does not catch it, list(...) raises, nothing is saved.
CrawlOtherError ==
    /\ crawl.pc = "fetch"
    /\ crawl' = [crawl EXCEPT !.requests = Append(@, crawl.offset), !.pc = "raised"]
    /\ UNCHANGED <<documents, next_id, now>>
    /\ ingest' = Append(ingest, Run(crawl, FALSE, Null))
    /\ NotCrawl

\* save_documents(conn, docs, datetime.now().isoformat()); conn.close().
\* crawl_and_sync then reads the clock again and hands the dicts of the
\* crawled documents to sync_to_supabase.
CrawlSave ==
    /\ crawl.pc = "save"
    /\ LET r == save_documents(documents, next_id, crawl.docs, now) IN
          /\ documents' = r.tbl
          /\ next_id' = r.next_id
    /\ ingest' = Append(ingest, Run(crawl, TRUE, Some(now)))
    /\ IF crawl.sync
       THEN /\ crawl' = syncing(crawl, [k \in DOMAIN crawl.docs |->
                                           doc_dict(crawl.docs[k], now + 1)], 100)
            /\ now' = IF crawl.docs = <<>> THEN now + 1 ELSE now + 2
       ELSE /\ crawl' = [crawl EXCEPT !.pc = "idle"]
            /\ now' = now + 1
    /\ NotCrawl

ProOff ==
    /\ subscriptions_pro = <<>> /\ extractions_pro = <<>>
    /\ procs = <<>> /\ budget = 0 /\ delivered = <<>> /\ registered = <<>>

InitCrawl ==
    /\ crawl = CrawlIdle /\ documents = <<>> /\ next_id = 1 /\ ingest = <<>>
    /\ now = 1
    /\ ProOff /\ StoreOff
    /\ subscriptions = <<>> /\ std = StdOff /\ std_delivered = <<>>
    /\ m_in = <<>> /\ m_out = <<>>
    /\ ExtractOff

NextCrawl ==
    \/ \E d1 \in Dates : \E d2 \in d1..MaxDates : CrawlStart(d1, d2, FALSE)
    \/ \E results \in Pages, iTotalCount \in TotalCounts :
          CrawlFetch(results, iTotalCount)
    \/ CrawlHttpError
    \/ CrawlOtherError
    \/ CrawlSave

SpecCrawl == InitCrawl /\ [][NextCrawl]_vars

\* The crawler with the store behind it: one crawl_day or crawl_and_sync of
\* the first date over a search of at most two pages, and init_db,
\* sync_from_sqlite and sync_to_supabase before and after it.
SyncTotalCounts == {1, PAGE_SIZE + 1}
\* The lists handed to sync_to_supabase by itself: dicts of parsed records.
SyncDocs ==
    SeqsUpTo({doc_dict(parse_document(r, 1), 0) :
                 r \in {x \in RawRecords : x.title = Some(Null)}}, MaxSyncDocs)

NextSync ==
    \/ \E sync \in BOOLEAN : ingest = <<>> /\ CrawlStart(1, 1, sync)
    \/ \E results \in Pages, iTotalCount \in SyncTotalCounts :
          CrawlFetch(results, iTotalCount)
    \/ CrawlHttpError
    \/ CrawlOtherError
    \/ CrawlSave
    \/ InitDb
    \/ \E date \in {Null} \cup {Some(d) : d \in Dates} : SyncFromSqlite(date)
    \/ \E docs \in SyncDocs, batch_size \in {1, 100} :
          SyncToSupabase(docs, batch_size, FALSE)
    \/ SyncBatch

SpecSync == InitCrawl /\ [][NextSync]_vars

(***************************************************************************)
(* STANDARD DIGEST (scripts/send_digest.py)                                *)
(* A Python str is a sequence of one-character strings.                    *)
(***************************************************************************)
\* A character is written as itself where a string of this module can hold
\* it (below U+0080 but for the controls, the quote, the backslash and the
\* grave accent; above, a code that ends in a byte of 80 to FF), and as the
\* name of its code point, "U+0253", where it cannot.
\* The characters str.lower() changes into one other character, and below
\* the form it gives each.
UpperCase ==
    <<
    "A", "B", "C", "D", "E", "F", "G", "H", "I", "J", "K", "L", "M", "N", "O", "P", "Q", "R",
    "S", "T", "U", "V", "W", "X", "Y", "Z", "À", "Á", "Â", "Ã", "Ä", "Å", "Æ", "Ç", "È", "É",
    "Ê", "Ë", "Ì", "Í", "Î", "Ï", "Ð", "Ñ", "Ò", "Ó", "Ô", "Õ", "Ö", "Ø", "Ù", "Ú", "Û", "Ü",
    "Ý", "Þ", "U+0100", "U+0102", "U+0104", "U+0106", "U+0108", "U+010A", "U+010C", "U+010E",
    "U+0110", "U+0112", "U+0114", "U+0116", "U+0118", "U+011A", "U+011C", "U+011E", "U+0120",
    "U+0122", "U+0124", "U+0126", "U+0128", "U+012A", "U+012C", "U+012E", "U+0132", "U+0134",
    "U+0136", "U+0139", "U+013B", "U+013D", "U+013F", "U+0141", "U+0143", "U+0145", "U+0147",
    "U+014A", "U+014C", "U+014E", "U+0150", "U+0152", "U+0154", "U+0156", "U+0158", "U+015A",
    "U+015C", "U+015E", "U+0160", "U+0162", "U+0164", "U+0166", "U+0168", "U+016A", "U+016C",
    "U+016E", "U+0170", "U+0172", "U+0174", "U+0176", "U+0178", "U+0179", "U+017B", "U+017D",
    "Ɓ", "Ƃ", "Ƅ", "Ɔ", "Ƈ", "Ɖ", "Ɗ", "Ƌ", "Ǝ", "Ə", "Ɛ", "Ƒ", "Ɠ", "Ɣ", "Ɩ", "Ɨ", "Ƙ", "Ɯ",
    "Ɲ", "Ɵ", "Ơ", "Ƣ", "Ƥ", "Ʀ", "Ƨ", "Ʃ", "Ƭ", "Ʈ", "Ư", "Ʊ", "Ʋ", "Ƴ", "Ƶ", "Ʒ", "Ƹ", "Ƽ",
    "Ǆ", "ǅ", "Ǉ", "ǈ", "Ǌ", "ǋ", "Ǎ", "Ǐ", "Ǒ", "Ǔ", "Ǖ", "Ǘ", "Ǚ", "Ǜ", "Ǟ", "Ǡ", "Ǣ", "Ǥ",
    "Ǧ", "Ǩ", "Ǫ", "Ǭ", "Ǯ", "Ǳ", "ǲ", "Ǵ", "Ƕ", "Ƿ", "Ǹ", "Ǻ", "Ǽ", "Ǿ", "U+0200", "U+0202",
    "U+0204", "U+0206", "U+0208", "U+020A", "U+020C", "U+020E", "U+0210", "U+0212", "U+0214",
    "U+0216", "U+0218", "U+021A", "U+021C", "U+021E", "U+0220", "U+0222", "U+0224", "U+0226",
    "U+0228", "U+022A", "U+022C", "U+022E", "U+0230", "U+0232", "U+023A", "U+023B", "U+023D",
    "U+023E", "U+0241", "U+0243", "U+0244", "U+0245", "U+0246", "U+0248", "U+024A", "U+024C",
    "U+024E", "U+0370", "U+0372", "U+0376", "U+037F", "Ά", "Έ", "Ή", "Ί", "Ό", "Ύ", "Ώ", "Α",
    "Β", "Γ", "Δ", "Ε", "Ζ", "Η", "Θ", "Ι", "Κ", "Λ", "Μ", "Ν", "Ξ", "Ο", "Π", "Ρ", "Τ", "Υ",
    "Φ", "Χ", "Ψ", "Ω", "Ϊ", "Ϋ", "Ϗ", "Ϙ", "Ϛ", "Ϝ", "Ϟ", "Ϡ", "Ϣ", "Ϥ", "Ϧ", "Ϩ", "Ϫ", "Ϭ",
    "Ϯ", "ϴ", "Ϸ", "Ϲ", "Ϻ", "Ͻ", "Ͼ", "Ͽ", "U+0400", "U+0401", "U+0402", "U+0403", "U+0404",
    "U+0405", "U+0406", "U+0407", "U+0408", "U+0409", "U+040A", "U+040B", "U+040C", "U+040D",
    "U+040E", "U+040F", "U+0410", "U+0411", "U+0412", "U+0413", "U+0414", "U+0415", "U+0416",
    "U+0417", "U+0418", "U+0419", "U+041A", "U+041B", "U+041C", "U+041D", "U+041E", "U+041F",
    "U+0420", "U+0421", "U+0422", "U+0423", "U+0424", "U+0425", "U+0426", "U+0427", "U+0428",
    "U+0429", "U+042A", "U+042B", "U+042C", "U+042D", "U+042E", "U+042F", "U+0460", "U+0462",
    "U+0464", "U+0466", "U+0468", "U+046A", "U+046C", "U+046E", "U+0470", "U+0472", "U+0474",
    "U+0476", "U+0478", "U+047A", "U+047C", "U+047E", "Ҁ", "Ҋ", "Ҍ", "Ҏ", "Ґ", "Ғ", "Ҕ", "Җ",
    "Ҙ", "Қ", "Ҝ", "Ҟ", "Ҡ", "Ң", "Ҥ", "Ҧ", "Ҩ", "Ҫ", "Ҭ", "Ү", "Ұ", "Ҳ", "Ҵ", "Ҷ", "Ҹ", "Һ",
    "Ҽ", "Ҿ", "Ӏ", "Ӂ", "Ӄ", "Ӆ", "Ӈ", "Ӊ", "Ӌ", "Ӎ", "Ӑ", "Ӓ", "Ӕ", "Ӗ", "Ә", "Ӛ", "Ӝ", "Ӟ",
    "Ӡ", "Ӣ", "Ӥ", "Ӧ", "Ө", "Ӫ", "Ӭ", "Ӯ", "Ӱ", "Ӳ", "Ӵ", "Ӷ", "Ӹ", "Ӻ", "Ӽ", "Ӿ", "U+0500",
    "U+0502", "U+0504", "U+0506", "U+0508", "U+050A", "U+050C", "U+050E", "U+0510", "U+0512",
    "U+0514", "U+0516", "U+0518", "U+051A", "U+051C", "U+051E", "U+0520", "U+0522", "U+0524",
    "U+0526", "U+0528", "U+052A", "U+052C", "U+052E", "U+0531", "U+0532", "U+0533", "U+0534",
    "U+0535", "U+0536", "U+0537", "U+0538", "U+0539", "U+053A", "U+053B", "U+053C", "U+053D",
    "U+053E", "U+053F", "U+0540", "U+0541", "U+0542", "U+0543", "U+0544", "U+0545", "U+0546",
    "U+0547", "U+0548", "U+0549", "U+054A", "U+054B", "U+054C", "U+054D", "U+054E", "U+054F",
    "U+0550", "U+0551", "U+0552", "U+0553", "U+0554", "U+0555", "U+0556", "Ⴀ", "Ⴁ", "Ⴂ", "Ⴃ",
    "Ⴄ", "Ⴅ", "Ⴆ", "Ⴇ", "Ⴈ", "Ⴉ", "Ⴊ", "Ⴋ", "Ⴌ", "Ⴍ", "Ⴎ", "Ⴏ", "Ⴐ", "Ⴑ", "Ⴒ", "Ⴓ", "Ⴔ", "Ⴕ",
    "Ⴖ", "Ⴗ", "Ⴘ", "Ⴙ", "Ⴚ", "Ⴛ", "Ⴜ", "Ⴝ", "Ⴞ", "Ⴟ", "Ⴠ", "Ⴡ", "Ⴢ", "Ⴣ", "Ⴤ", "Ⴥ", "Ⴧ", "Ⴭ",
    "Ꭰ", "Ꭱ", "Ꭲ", "Ꭳ", "Ꭴ", "Ꭵ", "Ꭶ", "Ꭷ", "Ꭸ", "Ꭹ", "Ꭺ", "Ꭻ", "Ꭼ", "Ꭽ", "Ꭾ", "Ꭿ", "Ꮀ", "Ꮁ",
    "Ꮂ", "Ꮃ", "Ꮄ", "Ꮅ", "Ꮆ", "Ꮇ", "Ꮈ", "Ꮉ", "Ꮊ", "Ꮋ", "Ꮌ", "Ꮍ", "Ꮎ", "Ꮏ", "Ꮐ", "Ꮑ", "Ꮒ", "Ꮓ",
    "Ꮔ", "Ꮕ", "Ꮖ", "Ꮗ", "Ꮘ", "Ꮙ", "Ꮚ", "Ꮛ", "Ꮜ", "Ꮝ", "Ꮞ", "Ꮟ", "Ꮠ", "Ꮡ", "Ꮢ", "Ꮣ", "Ꮤ", "Ꮥ",
    "Ꮦ", "Ꮧ", "Ꮨ", "Ꮩ", "Ꮪ", "Ꮫ", "Ꮬ", "Ꮭ", "Ꮮ", "Ꮯ", "Ꮰ", "Ꮱ", "Ꮲ", "Ꮳ", "Ꮴ", "Ꮵ", "Ꮶ", "Ꮷ",
    "Ꮸ", "Ꮹ", "Ꮺ", "Ꮻ", "Ꮼ", "Ꮽ", "Ꮾ", "Ꮿ", "Ᏸ", "Ᏹ", "Ᏺ", "Ᏻ", "Ᏼ", "Ᏽ", "Ა", "Ბ", "Გ", "Დ",
    "Ე", "Ვ", "Ზ", "Თ", "Ი", "Კ", "Ლ", "Მ", "Ნ", "Ო", "Პ", "Ჟ", "Რ", "Ს", "Ტ", "Უ", "Ფ", "Ქ",
    "Ღ", "Ყ", "Შ", "Ჩ", "Ც", "Ძ", "Წ", "Ჭ", "Ხ", "Ჯ", "Ჰ", "Ჱ", "Ჲ", "Ჳ", "Ჴ", "Ჵ", "Ჶ", "Ჷ",
    "Ჸ", "Ჹ", "Ჺ", "Ჽ", "Ჾ", "Ჿ", "U+1E00", "U+1E02", "U+1E04", "U+1E06", "U+1E08", "U+1E0A",
    "U+1E0C", "U+1E0E", "U+1E10", "U+1E12", "U+1E14", "U+1E16", "U+1E18", "U+1E1A", "U+1E1C",
    "U+1E1E", "U+1E20", "U+1E22", "U+1E24", "U+1E26", "U+1E28", "U+1E2A", "U+1E2C", "U+1E2E",
    "U+1E30", "U+1E32", "U+1E34", "U+1E36", "U+1E38", "U+1E3A", "U+1E3C", "U+1E3E", "U+1E40",
    "U+1E42", "U+1E44", "U+1E46", "U+1E48", "U+1E4A", "U+1E4C", "U+1E4E", "U+1E50", "U+1E52",
    "U+1E54", "U+1E56", "U+1E58", "U+1E5A", "U+1E5C", "U+1E5E", "U+1E60", "U+1E62", "U+1E64",
    "U+1E66", "U+1E68", "U+1E6A", "U+1E6C", "U+1E6E", "U+1E70", "U+1E72", "U+1E74", "U+1E76",
    "U+1E78", "U+1E7A", "U+1E7C", "U+1E7E", "Ẁ", "Ẃ", "Ẅ", "Ẇ", "Ẉ", "Ẋ", "Ẍ", "Ẏ", "Ẑ", "Ẓ",
    "Ẕ", "ẞ", "Ạ", "Ả", "Ấ", "Ầ", "Ẩ", "Ẫ", "Ậ", "Ắ", "Ằ", "Ẳ", "Ẵ", "Ặ", "Ẹ", "Ẻ", "Ẽ", "Ế",
    "Ề", "Ể", "Ễ", "Ệ", "Ỉ", "Ị", "Ọ", "Ỏ", "Ố", "Ồ", "Ổ", "Ỗ", "Ộ", "Ớ", "Ờ", "Ở", "Ỡ", "Ợ",
    "Ụ", "Ủ", "Ứ", "Ừ", "Ử", "Ữ", "Ự", "Ỳ", "Ỵ", "Ỷ", "Ỹ", "Ỻ", "Ỽ", "Ỿ", "U+1F08", "U+1F09",
    "U+1F0A", "U+1F0B", "U+1F0C", "U+1F0D", "U+1F0E", "U+1F0F", "U+1F18", "U+1F19", "U+1F1A",
    "U+1F1B", "U+1F1C", "U+1F1D", "U+1F28", "U+1F29", "U+1F2A", "U+1F2B", "U+1F2C", "U+1F2D",
    "U+1F2E", "U+1F2F", "U+1F38", "U+1F39", "U+1F3A", "U+1F3B", "U+1F3C", "U+1F3D", "U+1F3E",
    "U+1F3F", "U+1F48", "U+1F49", "U+1F4A", "U+1F4B", "U+1F4C", "U+1F4D", "U+1F59", "U+1F5B",
    "U+1F5D", "U+1F5F", "U+1F68", "U+1F69", "U+1F6A", "U+1F6B", "U+1F6C", "U+1F6D", "U+1F6E",
    "U+1F6F", "ᾈ", "ᾉ", "ᾊ", "ᾋ", "ᾌ", "ᾍ", "ᾎ", "ᾏ", "ᾘ", "ᾙ", "ᾚ", "ᾛ", "ᾜ", "ᾝ", "ᾞ", "ᾟ",
    "ᾨ", "ᾩ", "ᾪ", "ᾫ", "ᾬ", "ᾭ", "ᾮ", "ᾯ", "Ᾰ", "Ᾱ", "Ὰ", "Ά", "ᾼ", "Ὲ", "Έ", "Ὴ", "Ή", "ῌ",
    "Ῐ", "Ῑ", "Ὶ", "Ί", "Ῠ", "Ῡ", "Ὺ", "Ύ", "Ῥ", "Ὸ", "Ό", "Ὼ", "Ώ", "ῼ", "U+2126", "U+212A",
    "U+212B", "U+2132", "U+2160", "U+2161", "U+2162", "U+2163", "U+2164", "U+2165", "U+2166",
    "U+2167", "U+2168", "U+2169", "U+216A", "U+216B", "U+216C", "U+216D", "U+216E", "U+216F",
    "Ↄ", "Ⓐ", "Ⓑ", "Ⓒ", "Ⓓ", "Ⓔ", "Ⓕ", "Ⓖ", "Ⓗ", "Ⓘ", "Ⓙ", "Ⓚ", "Ⓛ", "Ⓜ", "Ⓝ", "Ⓞ", "Ⓟ", "Ⓠ",
    "Ⓡ", "Ⓢ", "Ⓣ", "Ⓤ", "Ⓥ", "Ⓦ", "Ⓧ", "Ⓨ", "Ⓩ", "U+2C00", "U+2C01", "U+2C02", "U+2C03",
    "U+2C04", "U+2C05", "U+2C06", "U+2C07", "U+2C08", "U+2C09", "U+2C0A", "U+2C0B", "U+2C0C",
    "U+2C0D", "U+2C0E", "U+2C0F", "U+2C10", "U+2C11", "U+2C12", "U+2C13", "U+2C14", "U+2C15",
    "U+2C16", "U+2C17", "U+2C18", "U+2C19", "U+2C1A", "U+2C1B", "U+2C1C", "U+2C1D", "U+2C1E",
    "U+2C1F", "U+2C20", "U+2C21", "U+2C22", "U+2C23", "U+2C24", "U+2C25", "U+2C26", "U+2C27",
    "U+2C28", "U+2C29", "U+2C2A", "U+2C2B", "U+2C2C", "U+2C2D", "U+2C2E", "U+2C2F", "U+2C60",
    "U+2C62", "U+2C63", "U+2C64", "U+2C67", "U+2C69", "U+2C6B", "U+2C6D", "U+2C6E", "U+2C6F",
    "U+2C70", "U+2C72", "U+2C75", "U+2C7E", "U+2C7F", "Ⲁ", "Ⲃ", "Ⲅ", "Ⲇ", "Ⲉ", "Ⲋ", "Ⲍ", "Ⲏ",
    "Ⲑ", "Ⲓ", "Ⲕ", "Ⲗ", "Ⲙ", "Ⲛ", "Ⲝ", "Ⲟ", "Ⲡ", "Ⲣ", "Ⲥ", "Ⲧ", "Ⲩ", "Ⲫ", "Ⲭ", "Ⲯ", "Ⲱ", "Ⲳ",
    "Ⲵ", "Ⲷ", "Ⲹ", "Ⲻ", "Ⲽ", "Ⲿ", "Ⳁ", "Ⳃ", "Ⳅ", "Ⳇ", "Ⳉ", "Ⳋ", "Ⳍ", "Ⳏ", "Ⳑ", "Ⳓ", "Ⳕ", "Ⳗ",
    "Ⳙ", "Ⳛ", "Ⳝ", "Ⳟ", "Ⳡ", "Ⳣ", "Ⳬ", "Ⳮ", "Ⳳ", "U+A640", "U+A642", "U+A644", "U+A646",
    "U+A648", "U+A64A", "U+A64C", "U+A64E", "U+A650", "U+A652", "U+A654", "U+A656", "U+A658",
    "U+A65A", "U+A65C", "U+A65E", "U+A660", "U+A662", "U+A664", "U+A666", "U+A668", "U+A66A",
    "U+A66C", "Ꚁ", "Ꚃ", "Ꚅ", "Ꚇ", "Ꚉ", "Ꚋ", "Ꚍ", "Ꚏ", "Ꚑ", "Ꚓ", "Ꚕ", "Ꚗ", "Ꚙ", "Ꚛ", "U+A722",
    "U+A724", "U+A726", "U+A728", "U+A72A", "U+A72C", "U+A72E", "U+A732", "U+A734", "U+A736",
    "U+A738", "U+A73A", "U+A73C", "U+A73E", "U+A740", "U+A742", "U+A744", "U+A746", "U+A748",
    "U+A74A", "U+A74C", "U+A74E", "U+A750", "U+A752", "U+A754", "U+A756", "U+A758", "U+A75A",
    "U+A75C", "U+A75E", "U+A760", "U+A762", "U+A764", "U+A766", "U+A768", "U+A76A", "U+A76C",
    "U+A76E", "U+A779", "U+A77B", "U+A77D", "U+A77E", "Ꞁ", "Ꞃ", "Ꞅ", "Ꞇ", "Ꞌ", "Ɥ", "Ꞑ", "Ꞓ",
    "Ꞗ", "Ꞙ", "Ꞛ", "Ꞝ", "Ꞟ", "Ꞡ", "Ꞣ", "Ꞥ", "Ꞧ", "Ꞩ", "Ɦ", "Ɜ", "Ɡ", "Ɬ", "Ɪ", "Ʞ", "Ʇ", "Ʝ",
    "Ꭓ", "Ꞵ", "Ꞷ", "Ꞹ", "Ꞻ", "Ꞽ", "Ꞿ", "Ꟁ", "Ꟃ", "Ꞔ", "Ʂ", "Ᶎ", "Ꟈ", "Ꟊ", "Ꟑ", "Ꟗ", "Ꟙ", "Ꟶ",
    "U+FF21", "U+FF22", "U+FF23", "U+FF24", "U+FF25", "U+FF26", "U+FF27", "U+FF28", "U+FF29",
    "U+FF2A", "U+FF2B", "U+FF2C", "U+FF2D", "U+FF2E", "U+FF2F", "U+FF30", "U+FF31", "U+FF32",
    "U+FF33", "U+FF34", "U+FF35", "U+FF36", "U+FF37", "U+FF38", "U+FF39", "U+FF3A", "U+10400",
    "U+10401", "U+10402", "U+10403", "U+10404", "U+10405", "U+10406", "U+10407", "U+10408",
    "U+10409", "U+1040A", "U+1040B", "U+1040C", "U+1040D", "U+1040E", "U+1040F", "U+10410",
    "U+10411", "U+10412", "U+10413", "U+10414", "U+10415", "U+10416", "U+10417", "U+10418",
    "U+10419", "U+1041A", "U+1041B", "U+1041C", "U+1041D", "U+1041E", "U+1041F", "U+10420",
    "U+10421", "U+10422", "U+10423", "U+10424", "U+10425", "U+10426", "U+10427", "U+104B0",
    "U+104B1", "U+104B2", "U+104B3", "U+104B4", "U+104B5", "U+104B6", "U+104B7", "U+104B8",
    "U+104B9", "U+104BA", "U+104BB", "U+104BC", "U+104BD", "U+104BE", "U+104BF", "U+104C0",
    "U+104C1", "U+104C2", "U+104C3", "U+104C4", "U+104C5", "U+104C6", "U+104C7", "U+104C8",
    "U+104C9", "U+104CA", "U+104CB", "U+104CC", "U+104CD", "U+104CE", "U+104CF", "U+104D0",
    "U+104D1", "U+104D2", "U+104D3", "U+10570", "U+10571", "U+10572", "U+10573", "U+10574",
    "U+10575", "U+10576", "U+10577", "U+10578", "U+10579", "U+1057A", "U+1057C", "U+1057D",
    "U+1057E", "U+1057F", "U+10580", "U+10581", "U+10582", "U+10583", "U+10584", "U+10585",
    "U+10586", "U+10587", "U+10588", "U+10589", "U+1058A", "U+1058C", "U+1058D", "U+1058E",
    "U+1058F", "U+10590", "U+10591", "U+10592", "U+10594", "U+10595", "U+10C80", "U+10C81",
    "U+10C82", "U+10C83", "U+10C84", "U+10C85", "U+10C86", "U+10C87", "U+10C88", "U+10C89",
    "U+10C8A", "U+10C8B", "U+10C8C", "U+10C8D", "U+10C8E", "U+10C8F", "U+10C90", "U+10C91",
    "U+10C92", "U+10C93", "U+10C94", "U+10C95", "U+10C96", "U+10C97", "U+10C98", "U+10C99",
    "U+10C9A", "U+10C9B", "U+10C9C", "U+10C9D", "U+10C9E", "U+10C9F", "U+10CA0", "U+10CA1",
    "U+10CA2", "U+10CA3", "U+10CA4", "U+10CA5", "U+10CA6", "U+10CA7", "U+10CA8", "U+10CA9",
    "U+10CAA", "U+10CAB", "U+10CAC", "U+10CAD", "U+10CAE", "U+10CAF", "U+10CB0", "U+10CB1",
    "U+10CB2", "U+118A0", "U+118A1", "U+118A2", "U+118A3", "U+118A4", "U+118A5", "U+118A6",
    "U+118A7", "U+118A8", "U+118A9", "U+118AA", "U+118AB", "U+118AC", "U+118AD", "U+118AE",
    "U+118AF", "U+118B0", "U+118B1", "U+118B2", "U+118B3", "U+118B4", "U+118B5", "U+118B6",
    "U+118B7", "U+118B8", "U+118B9", "U+118BA", "U+118BB", "U+118BC", "U+118BD", "U+118BE",
    "U+118BF", "U+16E40", "U+16E41", "U+16E42", "U+16E43", "U+16E44", "U+16E45", "U+16E46",
    "U+16E47", "U+16E48", "U+16E49", "U+16E4A", "U+16E4B", "U+16E4C", "U+16E4D", "U+16E4E",
    "U+16E4F", "U+16E50", "U+16E51", "U+16E52", "U+16E53", "U+16E54", "U+16E55", "U+16E56",
    "U+16E57", "U+16E58", "U+16E59", "U+16E5A", "U+16E5B", "U+16E5C", "U+16E5D", "U+16E5E",
    "U+16E5F", "U+1E900", "U+1E901", "U+1E902", "U+1E903", "U+1E904", "U+1E905", "U+1E906",
    "U+1E907", "U+1E908", "U+1E909", "U+1E90A", "U+1E90B", "U+1E90C", "U+1E90D", "U+1E90E",
    "U+1E90F", "U+1E910", "U+1E911", "U+1E912", "U+1E913", "U+1E914", "U+1E915", "U+1E916",
    "U+1E917", "U+1E918", "U+1E919", "U+1E91A", "U+1E91B", "U+1E91C", "U+1E91D", "U+1E91E",
    "U+1E91F", "U+1E920", "U+1E921"
    >>
LowerCase ==
    <<
    "a", "b", "c", "d", "e", "f", "g", "h", "i", "j", "k", "l", "m", "n", "o", "p", "q", "r",
    "s", "t", "u", "v", "w", "x", "y", "z", "à", "á", "â", "ã", "ä", "å", "æ", "ç", "è", "é",
    "ê", "ë", "ì", "í", "î", "ï", "ð", "ñ", "ò", "ó", "ô", "õ", "ö", "ø", "ù", "ú", "û", "ü",
    "ý", "þ", "U+0101", "U+0103", "U+0105", "U+0107", "U+0109", "U+010B", "U+010D", "U+010F",
    "U+0111", "U+0113", "U+0115", "U+0117", "U+0119", "U+011B", "U+011D", "U+011F", "U+0121",
    "U+0123", "U+0125", "U+0127", "U+0129", "U+012B", "U+012D", "U+012F", "U+0133", "U+0135",
    "U+0137", "U+013A", "U+013C", "U+013E", "U+0140", "U+0142", "U+0144", "U+0146", "U+0148",
    "U+014B", "U+014D", "U+014F", "U+0151", "U+0153", "U+0155", "U+0157", "U+0159", "U+015B",
    "U+015D", "U+015F", "U+0161", "U+0163", "U+0165", "U+0167", "U+0169", "U+016B", "U+016D",
    "U+016F", "U+0171", "U+0173", "U+0175", "U+0177", "ÿ", "U+017A", "U+017C", "U+017E",
    "U+0253", "ƃ", "ƅ", "U+0254", "ƈ", "U+0256", "U+0257", "ƌ", "ǝ", "U+0259", "U+025B", "ƒ",
    "U+0260", "U+0263", "U+0269", "U+0268", "ƙ", "U+026F", "U+0272", "U+0275", "ơ", "ƣ", "ƥ",
    "ʀ", "ƨ", "ʃ", "ƭ", "ʈ", "ư", "ʊ", "ʋ", "ƴ", "ƶ", "ʒ", "ƹ", "ƽ", "ǆ", "ǆ", "ǉ", "ǉ", "ǌ",
    "ǌ", "ǎ", "ǐ", "ǒ", "ǔ", "ǖ", "ǘ", "ǚ", "ǜ", "ǟ", "ǡ", "ǣ", "ǥ", "ǧ", "ǩ", "ǫ", "ǭ", "ǯ",
    "ǳ", "ǳ", "ǵ", "ƕ", "ƿ", "ǹ", "ǻ", "ǽ", "ǿ", "U+0201", "U+0203", "U+0205", "U+0207",
    "U+0209", "U+020B", "U+020D", "U+020F", "U+0211", "U+0213", "U+0215", "U+0217", "U+0219",
    "U+021B", "U+021D", "U+021F", "ƞ", "U+0223", "U+0225", "U+0227", "U+0229", "U+022B",
    "U+022D", "U+022F", "U+0231", "U+0233", "U+2C65", "U+023C", "ƚ", "U+2C66", "U+0242", "ƀ",
    "ʉ", "ʌ", "U+0247", "U+0249", "U+024B", "U+024D", "U+024F", "U+0371", "U+0373", "U+0377",
    "ϳ", "ά", "έ", "ή", "ί", "ό", "ύ", "ώ", "α", "β", "γ", "δ", "ε", "ζ", "η", "θ", "ι", "κ",
    "λ", "μ", "ν", "ξ", "ο", "π", "ρ", "τ", "υ", "φ", "χ", "ψ", "ω", "ϊ", "ϋ", "ϗ", "ϙ", "ϛ",
    "ϝ", "ϟ", "ϡ", "ϣ", "ϥ", "ϧ", "ϩ", "ϫ", "ϭ", "ϯ", "θ", "ϸ", "ϲ", "ϻ", "U+037B", "U+037C",
    "U+037D", "U+0450", "U+0451", "U+0452", "U+0453", "U+0454", "U+0455", "U+0456", "U+0457",
    "U+0458", "U+0459", "U+045A", "U+045B", "U+045C", "U+045D", "U+045E", "U+045F", "U+0430",
    "U+0431", "U+0432", "U+0433", "U+0434", "U+0435", "U+0436", "U+0437", "U+0438", "U+0439",
    "U+043A", "U+043B", "U+043C", "U+043D", "U+043E", "U+043F", "U+0440", "U+0441", "U+0442",
    "U+0443", "U+0444", "U+0445", "U+0446", "U+0447", "U+0448", "U+0449", "U+044A", "U+044B",
    "U+044C", "U+044D", "U+044E", "U+044F", "U+0461", "U+0463", "U+0465", "U+0467", "U+0469",
    "U+046B", "U+046D", "U+046F", "U+0471", "U+0473", "U+0475", "U+0477", "U+0479", "U+047B",
    "U+047D", "U+047F", "ҁ", "ҋ", "ҍ", "ҏ", "ґ", "ғ", "ҕ", "җ", "ҙ", "қ", "ҝ", "ҟ", "ҡ", "ң",
    "ҥ", "ҧ", "ҩ", "ҫ", "ҭ", "ү", "ұ", "ҳ", "ҵ", "ҷ", "ҹ", "һ", "ҽ", "ҿ", "ӏ", "ӂ", "ӄ", "ӆ",
    "ӈ", "ӊ", "ӌ", "ӎ", "ӑ", "ӓ", "ӕ", "ӗ", "ә", "ӛ", "ӝ", "ӟ", "ӡ", "ӣ", "ӥ", "ӧ", "ө", "ӫ",
    "ӭ", "ӯ", "ӱ", "ӳ", "ӵ", "ӷ", "ӹ", "ӻ", "ӽ", "ӿ", "U+0501", "U+0503", "U+0505", "U+0507",
    "U+0509", "U+050B", "U+050D", "U+050F", "U+0511", "U+0513", "U+0515", "U+0517", "U+0519",
    "U+051B", "U+051D", "U+051F", "U+0521", "U+0523", "U+0525", "U+0527", "U+0529", "U+052B",
    "U+052D", "U+052F", "U+0561", "U+0562", "U+0563", "U+0564", "U+0565", "U+0566", "U+0567",
    "U+0568", "U+0569", "U+056A", "U+056B", "U+056C", "U+056D", "U+056E", "U+056F", "U+0570",
    "U+0571", "U+0572", "U+0573", "U+0574", "U+0575", "U+0576", "U+0577", "U+0578", "U+0579",
    "U+057A", "U+057B", "U+057C", "U+057D", "U+057E", "U+057F", "ր", "ց", "ւ", "փ", "ք", "օ",
    "ֆ", "U+2D00", "U+2D01", "U+2D02", "U+2D03", "U+2D04", "U+2D05", "U+2D06", "U+2D07",
    "U+2D08", "U+2D09", "U+2D0A", "U+2D0B", "U+2D0C", "U+2D0D", "U+2D0E", "U+2D0F", "U+2D10",
    "U+2D11", "U+2D12", "U+2D13", "U+2D14", "U+2D15", "U+2D16", "U+2D17", "U+2D18", "U+2D19",
    "U+2D1A", "U+2D1B", "U+2D1C", "U+2D1D", "U+2D1E", "U+2D1F", "U+2D20", "U+2D21", "U+2D22",
    "U+2D23", "U+2D24", "U+2D25", "U+2D27", "U+2D2D", "U+AB70", "U+AB71", "U+AB72", "U+AB73",
    "U+AB74", "U+AB75", "U+AB76", "U+AB77", "U+AB78", "U+AB79", "U+AB7A", "U+AB7B", "U+AB7C",
    "U+AB7D", "U+AB7E", "U+AB7F", "ꮀ", "ꮁ", "ꮂ", "ꮃ", "ꮄ", "ꮅ", "ꮆ", "ꮇ", "ꮈ", "ꮉ", "ꮊ", "ꮋ",
    "ꮌ", "ꮍ", "ꮎ", "ꮏ", "ꮐ", "ꮑ", "ꮒ", "ꮓ", "ꮔ", "ꮕ", "ꮖ", "ꮗ", "ꮘ", "ꮙ", "ꮚ", "ꮛ", "ꮜ", "ꮝ",
    "ꮞ", "ꮟ", "ꮠ", "ꮡ", "ꮢ", "ꮣ", "ꮤ", "ꮥ", "ꮦ", "ꮧ", "ꮨ", "ꮩ", "ꮪ", "ꮫ", "ꮬ", "ꮭ", "ꮮ", "ꮯ",
    "ꮰ", "ꮱ", "ꮲ", "ꮳ", "ꮴ", "ꮵ", "ꮶ", "ꮷ", "ꮸ", "ꮹ", "ꮺ", "ꮻ", "ꮼ", "ꮽ", "ꮾ", "ꮿ", "ᏸ", "ᏹ",
    "ᏺ", "ᏻ", "ᏼ", "ᏽ", "ა", "ბ", "გ", "დ", "ე", "ვ", "ზ", "თ", "ი", "კ", "ლ", "მ", "ნ", "ო",
    "პ", "ჟ", "რ", "ს", "ტ", "უ", "ფ", "ქ", "ღ", "ყ", "შ", "ჩ", "ც", "ძ", "წ", "ჭ", "ხ", "ჯ",
    "ჰ", "ჱ", "ჲ", "ჳ", "ჴ", "ჵ", "ჶ", "ჷ", "ჸ", "ჹ", "ჺ", "ჽ", "ჾ", "ჿ", "U+1E01", "U+1E03",
    "U+1E05", "U+1E07", "U+1E09", "U+1E0B", "U+1E0D", "U+1E0F", "U+1E11", "U+1E13", "U+1E15",
    "U+1E17", "U+1E19", "U+1E1B", "U+1E1D", "U+1E1F", "U+1E21", "U+1E23", "U+1E25", "U+1E27",
    "U+1E29", "U+1E2B", "U+1E2D", "U+1E2F", "U+1E31", "U+1E33", "U+1E35", "U+1E37", "U+1E39",
    "U+1E3B", "U+1E3D", "U+1E3F", "U+1E41", "U+1E43", "U+1E45", "U+1E47", "U+1E49", "U+1E4B",
    "U+1E4D", "U+1E4F", "U+1E51", "U+1E53", "U+1E55", "U+1E57", "U+1E59", "U+1E5B", "U+1E5D",
    "U+1E5F", "U+1E61", "U+1E63", "U+1E65", "U+1E67", "U+1E69", "U+1E6B", "U+1E6D", "U+1E6F",
    "U+1E71", "U+1E73", "U+1E75", "U+1E77", "U+1E79", "U+1E7B", "U+1E7D", "U+1E7F", "ẁ", "ẃ",
    "ẅ", "ẇ", "ẉ", "ẋ", "ẍ", "ẏ", "ẑ", "ẓ", "ẕ", "ß", "ạ", "ả", "ấ", "ầ", "ẩ", "ẫ", "ậ", "ắ",
    "ằ", "ẳ", "ẵ", "ặ", "ẹ", "ẻ", "ẽ", "ế", "ề", "ể", "ễ", "ệ", "ỉ", "ị", "ọ", "ỏ", "ố", "ồ",
    "ổ", "ỗ", "ộ", "ớ", "ờ", "ở", "ỡ", "ợ", "ụ", "ủ", "ứ", "ừ", "ử", "ữ", "ự", "ỳ", "ỵ", "ỷ",
    "ỹ", "ỻ", "ỽ", "ỿ", "U+1F00", "U+1F01", "U+1F02", "U+1F03", "U+1F04", "U+1F05", "U+1F06",
    "U+1F07", "U+1F10", "U+1F11", "U+1F12", "U+1F13", "U+1F14", "U+1F15", "U+1F20", "U+1F21",
    "U+1F22", "U+1F23", "U+1F24", "U+1F25", "U+1F26", "U+1F27", "U+1F30", "U+1F31", "U+1F32",
    "U+1F33", "U+1F34", "U+1F35", "U+1F36", "U+1F37", "U+1F40", "U+1F41", "U+1F42", "U+1F43",
    "U+1F44", "U+1F45", "U+1F51", "U+1F53", "U+1F55", "U+1F57", "U+1F60", "U+1F61", "U+1F62",
    "U+1F63", "U+1F64", "U+1F65", "U+1F66", "U+1F67", "ᾀ", "ᾁ", "ᾂ", "ᾃ", "ᾄ", "ᾅ", "ᾆ", "ᾇ",
    "ᾐ", "ᾑ", "ᾒ", "ᾓ", "ᾔ", "ᾕ", "ᾖ", "ᾗ", "ᾠ", "ᾡ", "ᾢ", "ᾣ", "ᾤ", "ᾥ", "ᾦ", "ᾧ", "ᾰ", "ᾱ",
    "U+1F70", "U+1F71", "ᾳ", "U+1F72", "U+1F73", "U+1F74", "U+1F75", "ῃ", "ῐ", "ῑ", "U+1F76",
    "U+1F77", "ῠ", "ῡ", "U+1F7A", "U+1F7B", "ῥ", "U+1F78", "U+1F79", "U+1F7C", "U+1F7D", "ῳ",
    "ω", "k", "å", "U+214E", "U+2170", "U+2171", "U+2172", "U+2173", "U+2174", "U+2175",
    "U+2176", "U+2177", "U+2178", "U+2179", "U+217A", "U+217B", "U+217C", "U+217D", "U+217E",
    "U+217F", "ↄ", "ⓐ", "ⓑ", "ⓒ", "ⓓ", "ⓔ", "ⓕ", "ⓖ", "ⓗ", "ⓘ", "ⓙ", "ⓚ", "ⓛ", "ⓜ", "ⓝ", "ⓞ",
    "ⓟ", "ⓠ", "ⓡ", "ⓢ", "ⓣ", "ⓤ", "ⓥ", "ⓦ", "ⓧ", "ⓨ", "ⓩ", "U+2C30", "U+2C31", "U+2C32",
    "U+2C33", "U+2C34", "U+2C35", "U+2C36", "U+2C37", "U+2C38", "U+2C39", "U+2C3A", "U+2C3B",
    "U+2C3C", "U+2C3D", "U+2C3E", "U+2C3F", "U+2C40", "U+2C41", "U+2C42", "U+2C43", "U+2C44",
    "U+2C45", "U+2C46", "U+2C47", "U+2C48", "U+2C49", "U+2C4A", "U+2C4B", "U+2C4C", "U+2C4D",
    "U+2C4E", "U+2C4F", "U+2C50", "U+2C51", "U+2C52", "U+2C53", "U+2C54", "U+2C55", "U+2C56",
    "U+2C57", "U+2C58", "U+2C59", "U+2C5A", "U+2C5B", "U+2C5C", "U+2C5D", "U+2C5E", "U+2C5F",
    "U+2C61", "U+026B", "U+1D7D", "U+027D", "U+2C68", "U+2C6A", "U+2C6C", "U+0251", "U+0271",
    "U+0250", "U+0252", "U+2C73", "U+2C76", "U+023F", "U+0240", "ⲁ", "ⲃ", "ⲅ", "ⲇ", "ⲉ", "ⲋ",
    "ⲍ", "ⲏ", "ⲑ", "ⲓ", "ⲕ", "ⲗ", "ⲙ", "ⲛ", "ⲝ", "ⲟ", "ⲡ", "ⲣ", "ⲥ", "ⲧ", "ⲩ", "ⲫ", "ⲭ", "ⲯ",
    "ⲱ", "ⲳ", "ⲵ", "ⲷ", "ⲹ", "ⲻ", "ⲽ", "ⲿ", "ⳁ", "ⳃ", "ⳅ", "ⳇ", "ⳉ", "ⳋ", "ⳍ", "ⳏ", "ⳑ", "ⳓ",
    "ⳕ", "ⳗ", "ⳙ", "ⳛ", "ⳝ", "ⳟ", "ⳡ", "ⳣ", "ⳬ", "ⳮ", "ⳳ", "U+A641", "U+A643", "U+A645",
    "U+A647", "U+A649", "U+A64B", "U+A64D", "U+A64F", "U+A651", "U+A653", "U+A655", "U+A657",
    "U+A659", "U+A65B", "U+A65D", "U+A65F", "U+A661", "U+A663", "U+A665", "U+A667", "U+A669",
    "U+A66B", "U+A66D", "ꚁ", "ꚃ", "ꚅ", "ꚇ", "ꚉ", "ꚋ", "ꚍ", "ꚏ", "ꚑ", "ꚓ", "ꚕ", "ꚗ", "ꚙ", "ꚛ",
    "U+A723", "U+A725", "U+A727", "U+A729", "U+A72B", "U+A72D", "U+A72F", "U+A733", "U+A735",
    "U+A737", "U+A739", "U+A73B", "U+A73D", "U+A73F", "U+A741", "U+A743", "U+A745", "U+A747",
    "U+A749", "U+A74B", "U+A74D", "U+A74F", "U+A751", "U+A753", "U+A755", "U+A757", "U+A759",
    "U+A75B", "U+A75D", "U+A75F", "U+A761", "U+A763", "U+A765", "U+A767", "U+A769", "U+A76B",
    "U+A76D", "U+A76F", "U+A77A", "U+A77C", "U+1D79", "U+A77F", "ꞁ", "ꞃ", "ꞅ", "ꞇ", "ꞌ",
    "U+0265", "ꞑ", "ꞓ", "ꞗ", "ꞙ", "ꞛ", "ꞝ", "ꞟ", "ꞡ", "ꞣ", "ꞥ", "ꞧ", "ꞩ", "U+0266", "U+025C",
    "U+0261", "U+026C", "U+026A", "ʞ", "ʇ", "ʝ", "U+AB53", "ꞵ", "ꞷ", "ꞹ", "ꞻ", "ꞽ", "ꞿ", "ꟁ",
    "ꟃ", "ꞔ", "ʂ", "ᶎ", "ꟈ", "ꟊ", "ꟑ", "ꟗ", "ꟙ", "ꟶ", "U+FF41", "U+FF42", "U+FF43", "U+FF44",
    "U+FF45", "U+FF46", "U+FF47", "U+FF48", "U+FF49", "U+FF4A", "U+FF4B", "U+FF4C", "U+FF4D",
    "U+FF4E", "U+FF4F", "U+FF50", "U+FF51", "U+FF52", "U+FF53", "U+FF54", "U+FF55", "U+FF56",
    "U+FF57", "U+FF58", "U+FF59", "U+FF5A", "U+10428", "U+10429", "U+1042A", "U+1042B",
    "U+1042C", "U+1042D", "U+1042E", "U+1042F", "U+10430", "U+10431", "U+10432", "U+10433",
    "U+10434", "U+10435", "U+10436", "U+10437", "U+10438", "U+10439", "U+1043A", "U+1043B",
    "U+1043C", "U+1043D", "U+1043E", "U+1043F", "U+10440", "U+10441", "U+10442", "U+10443",
    "U+10444", "U+10445", "U+10446", "U+10447", "U+10448", "U+10449", "U+1044A", "U+1044B",
    "U+1044C", "U+1044D", "U+1044E", "U+1044F", "U+104D8", "U+104D9", "U+104DA", "U+104DB",
    "U+104DC", "U+104DD", "U+104DE", "U+104DF", "U+104E0", "U+104E1", "U+104E2", "U+104E3",
    "U+104E4", "U+104E5", "U+104E6", "U+104E7", "U+104E8", "U+104E9", "U+104EA", "U+104EB",
    "U+104EC", "U+104ED", "U+104EE", "U+104EF", "U+104F0", "U+104F1", "U+104F2", "U+104F3",
    "U+104F4", "U+104F5", "U+104F6", "U+104F7", "U+104F8", "U+104F9", "U+104FA", "U+104FB",
    "U+10597", "U+10598", "U+10599", "U+1059A", "U+1059B", "U+1059C", "U+1059D", "U+1059E",
    "U+1059F", "U+105A0", "U+105A1", "U+105A3", "U+105A4", "U+105A5", "U+105A6", "U+105A7",
    "U+105A8", "U+105A9", "U+105AA", "U+105AB", "U+105AC", "U+105AD", "U+105AE", "U+105AF",
    "U+105B0", "U+105B1", "U+105B3", "U+105B4", "U+105B5", "U+105B6", "U+105B7", "U+105B8",
    "U+105B9", "U+105BB", "U+105BC", "U+10CC0", "U+10CC1", "U+10CC2", "U+10CC3", "U+10CC4",
    "U+10CC5", "U+10CC6", "U+10CC7", "U+10CC8", "U+10CC9", "U+10CCA", "U+10CCB", "U+10CCC",
    "U+10CCD", "U+10CCE", "U+10CCF", "U+10CD0", "U+10CD1", "U+10CD2", "U+10CD3", "U+10CD4",
    "U+10CD5", "U+10CD6", "U+10CD7", "U+10CD8", "U+10CD9", "U+10CDA", "U+10CDB", "U+10CDC",
    "U+10CDD", "U+10CDE", "U+10CDF", "U+10CE0", "U+10CE1", "U+10CE2", "U+10CE3", "U+10CE4",
    "U+10CE5", "U+10CE6", "U+10CE7", "U+10CE8", "U+10CE9", "U+10CEA", "U+10CEB", "U+10CEC",
    "U+10CED", "U+10CEE", "U+10CEF", "U+10CF0", "U+10CF1", "U+10CF2", "U+118C0", "U+118C1",
    "U+118C2", "U+118C3", "U+118C4", "U+118C5", "U+118C6", "U+118C7", "U+118C8", "U+118C9",
    "U+118CA", "U+118CB", "U+118CC", "U+118CD", "U+118CE", "U+118CF", "U+118D0", "U+118D1",
    "U+118D2", "U+118D3", "U+118D4", "U+118D5", "U+118D6", "U+118D7", "U+118D8", "U+118D9",
    "U+118DA", "U+118DB", "U+118DC", "U+118DD", "U+118DE", "U+118DF", "U+16E60", "U+16E61",
    "U+16E62", "U+16E63", "U+16E64", "U+16E65", "U+16E66", "U+16E67", "U+16E68", "U+16E69",
    "U+16E6A", "U+16E6B", "U+16E6C", "U+16E6D", "U+16E6E", "U+16E6F", "U+16E70", "U+16E71",
    "U+16E72", "U+16E73", "U+16E74", "U+16E75", "U+16E76", "U+16E77", "U+16E78", "U+16E79",
    "U+16E7A", "U+16E7B", "U+16E7C", "U+16E7D", "U+16E7E", "U+16E7F", "U+1E922", "U+1E923",
    "U+1E924", "U+1E925", "U+1E926", "U+1E927", "U+1E928", "U+1E929", "U+1E92A", "U+1E92B",
    "U+1E92C", "U+1E92D", "U+1E92E", "U+1E92F", "U+1E930", "U+1E931", "U+1E932", "U+1E933",
    "U+1E934", "U+1E935", "U+1E936", "U+1E937", "U+1E938", "U+1E939", "U+1E93A", "U+1E93B",
    "U+1E93C", "U+1E93D", "U+1E93E", "U+1E93F", "U+1E940", "U+1E941", "U+1E942", "U+1E943"
    >>
\* The cased characters that have no entry in the two tables and are not
\* case-ignorable.
OtherCased ==
    {
    "ª", "µ", "º", "U+0130", "U+0131", "U+0138", "U+0149", "U+017F", "ƍ", "ƛ", "ƪ", "ƫ", "ƺ",
    "ƾ", "ǰ", "U+0221", "U+0234", "U+0235", "U+0236", "U+0237", "U+0238", "U+0239", "U+0255",
    "U+0258", "U+025A", "U+025D", "U+025E", "U+025F", "U+0262", "U+0264", "U+0267", "U+026D",
    "U+026E", "U+0270", "U+0273", "U+0274", "U+0276", "U+0277", "U+0278", "U+0279", "U+027A",
    "U+027B", "U+027C", "U+027E", "U+027F", "ʁ", "ʄ", "ʅ", "ʆ", "ʍ", "ʎ", "ʏ", "ʐ", "ʑ", "ʓ",
    "ʕ", "ʖ", "ʗ", "ʘ", "ʙ", "ʚ", "ʛ", "ʜ", "ʟ", "ʠ", "ʡ", "ʢ", "ʣ", "ʤ", "ʥ", "ʦ", "ʧ", "ʨ",
    "ʩ", "ʪ", "ʫ", "ʬ", "ʭ", "ʮ", "ʯ", "ΐ", "Σ", "ΰ", "ς", "σ", "ϐ", "ϑ", "ϒ", "ϓ", "ϔ", "ϕ",
    "ϖ", "ϰ", "ϱ", "ϵ", "ϼ", "U+0560", "և", "ֈ", "ᲀ", "ᲁ", "ᲂ", "ᲃ", "ᲄ", "ᲅ", "ᲆ", "ᲇ", "ᲈ",
    "U+1D00", "U+1D01", "U+1D02", "U+1D03", "U+1D04", "U+1D05", "U+1D06", "U+1D07", "U+1D08",
    "U+1D09", "U+1D0A", "U+1D0B", "U+1D0C", "U+1D0D", "U+1D0E", "U+1D0F", "U+1D10", "U+1D11",
    "U+1D12", "U+1D13", "U+1D14", "U+1D15", "U+1D16", "U+1D17", "U+1D18", "U+1D19", "U+1D1A",
    "U+1D1B", "U+1D1C", "U+1D1D", "U+1D1E", "U+1D1F", "U+1D20", "U+1D21", "U+1D22", "U+1D23",
    "U+1D24", "U+1D25", "U+1D26", "U+1D27", "U+1D28", "U+1D29", "U+1D2A", "U+1D2B", "U+1D6B",
    "U+1D6C", "U+1D6D", "U+1D6E", "U+1D6F", "U+1D70", "U+1D71", "U+1D72", "U+1D73", "U+1D74",
    "U+1D75", "U+1D76", "U+1D77", "U+1D7A", "U+1D7B", "U+1D7C", "U+1D7E", "U+1D7F", "ᶀ", "ᶁ",
    "ᶂ", "ᶃ", "ᶄ", "ᶅ", "ᶆ", "ᶇ", "ᶈ", "ᶉ", "ᶊ", "ᶋ", "ᶌ", "ᶍ", "ᶏ", "ᶐ", "ᶑ", "ᶒ", "ᶓ", "ᶔ",
    "ᶕ", "ᶖ", "ᶗ", "ᶘ", "ᶙ", "ᶚ", "ẖ", "ẗ", "ẘ", "ẙ", "ẚ", "ẛ", "ẜ", "ẝ", "ẟ", "U+1F50",
    "U+1F52", "U+1F54", "U+1F56", "ᾲ", "ᾴ", "ᾶ", "ᾷ", "ι", "ῂ", "ῄ", "ῆ", "ῇ", "ῒ", "ΐ", "ῖ",
    "ῗ", "ῢ", "ΰ", "ῤ", "ῦ", "ῧ", "ῲ", "ῴ", "ῶ", "ῷ", "U+2102", "U+2107", "U+210A", "U+210B",
    "U+210C", "U+210D", "U+210E", "U+210F", "U+2110", "U+2111", "U+2112", "U+2113", "U+2115",
    "U+2119", "U+211A", "U+211B", "U+211C", "U+211D", "U+2124", "U+2128", "U+212C", "U+212D",
    "U+212F", "U+2130", "U+2131", "U+2133", "U+2134", "U+2139", "U+213C", "U+213D", "U+213E",
    "U+213F", "U+2145", "U+2146", "U+2147", "U+2148", "U+2149", "U+2C71", "U+2C74", "U+2C77",
    "U+2C78", "U+2C79", "U+2C7A", "U+2C7B", "ⳤ", "U+A730", "U+A731", "U+A771", "U+A772",
    "U+A773", "U+A774", "U+A775", "U+A776", "U+A777", "U+A778", "ꞎ", "ꞕ", "ꞯ", "ꟓ", "ꟕ", "ꟺ",
    "U+AB30", "U+AB31", "U+AB32", "U+AB33", "U+AB34", "U+AB35", "U+AB36", "U+AB37", "U+AB38",
    "U+AB39", "U+AB3A", "U+AB3B", "U+AB3C", "U+AB3D", "U+AB3E", "U+AB3F", "U+AB40", "U+AB41",
    "U+AB42", "U+AB43", "U+AB44", "U+AB45", "U+AB46", "U+AB47", "U+AB48", "U+AB49", "U+AB4A",
    "U+AB4B", "U+AB4C", "U+AB4D", "U+AB4E", "U+AB4F", "U+AB50", "U+AB51", "U+AB52", "U+AB54",
    "U+AB55", "U+AB56", "U+AB57", "U+AB58", "U+AB59", "U+AB5A", "U+AB60", "U+AB61", "U+AB62",
    "U+AB63", "U+AB64", "U+AB65", "U+AB66", "U+AB67", "U+AB68", "U+FB00", "U+FB01", "U+FB02",
    "U+FB03", "U+FB04", "U+FB05", "U+FB06", "U+FB13", "U+FB14", "U+FB15", "U+FB16", "U+FB17",
    "U+1D400", "U+1D401", "U+1D402", "U+1D403", "U+1D404", "U+1D405", "U+1D406", "U+1D407",
    "U+1D408", "U+1D409", "U+1D40A", "U+1D40B", "U+1D40C", "U+1D40D", "U+1D40E", "U+1D40F",
    "U+1D410", "U+1D411", "U+1D412", "U+1D413", "U+1D414", "U+1D415", "U+1D416", "U+1D417",
    "U+1D418", "U+1D419", "U+1D41A", "U+1D41B", "U+1D41C", "U+1D41D", "U+1D41E", "U+1D41F",
    "U+1D420", "U+1D421", "U+1D422", "U+1D423", "U+1D424", "U+1D425", "U+1D426", "U+1D427",
    "U+1D428", "U+1D429", "U+1D42A", "U+1D42B", "U+1D42C", "U+1D42D", "U+1D42E", "U+1D42F",
    "U+1D430", "U+1D431", "U+1D432", "U+1D433", "U+1D434", "U+1D435", "U+1D436", "U+1D437",
    "U+1D438", "U+1D439", "U+1D43A", "U+1D43B", "U+1D43C", "U+1D43D", "U+1D43E", "U+1D43F",
    "U+1D440", "U+1D441", "U+1D442", "U+1D443", "U+1D444", "U+1D445", "U+1D446", "U+1D447",
    "U+1D448", "U+1D449", "U+1D44A", "U+1D44B", "U+1D44C", "U+1D44D", "U+1D44E", "U+1D44F",
    "U+1D450", "U+1D451", "U+1D452", "U+1D453", "U+1D454", "U+1D456", "U+1D457", "U+1D458",
    "U+1D459", "U+1D45A", "U+1D45B", "U+1D45C", "U+1D45D", "U+1D45E", "U+1D45F", "U+1D460",
    "U+1D461", "U+1D462", "U+1D463", "U+1D464", "U+1D465", "U+1D466", "U+1D467", "U+1D468",
    "U+1D469", "U+1D46A", "U+1D46B", "U+1D46C", "U+1D46D", "U+1D46E", "U+1D46F", "U+1D470",
    "U+1D471", "U+1D472", "U+1D473", "U+1D474", "U+1D475", "U+1D476", "U+1D477", "U+1D478",
    "U+1D479", "U+1D47A", "U+1D47B", "U+1D47C", "U+1D47D", "U+1D47E", "U+1D47F", "U+1D480",
    "U+1D481", "U+1D482", "U+1D483", "U+1D484", "U+1D485", "U+1D486", "U+1D487", "U+1D488",
    "U+1D489", "U+1D48A", "U+1D48B", "U+1D48C", "U+1D48D", "U+1D48E", "U+1D48F", "U+1D490",
    "U+1D491", "U+1D492", "U+1D493", "U+1D494", "U+1D495", "U+1D496", "U+1D497", "U+1D498",
    "U+1D499", "U+1D49A", "U+1D49B", "U+1D49C", "U+1D49E", "U+1D49F", "U+1D4A2", "U+1D4A5",
    "U+1D4A6", "U+1D4A9", "U+1D4AA", "U+1D4AB", "U+1D4AC", "U+1D4AE", "U+1D4AF", "U+1D4B0",
    "U+1D4B1", "U+1D4B2", "U+1D4B3", "U+1D4B4", "U+1D4B5", "U+1D4B6", "U+1D4B7", "U+1D4B8",
    "U+1D4B9", "U+1D4BB", "U+1D4BD", "U+1D4BE", "U+1D4BF", "U+1D4C0", "U+1D4C1", "U+1D4C2",
    "U+1D4C3", "U+1D4C5", "U+1D4C6", "U+1D4C7", "U+1D4C8", "U+1D4C9", "U+1D4CA", "U+1D4CB",
    "U+1D4CC", "U+1D4CD", "U+1D4CE", "U+1D4CF", "U+1D4D0", "U+1D4D1", "U+1D4D2", "U+1D4D3",
    "U+1D4D4", "U+1D4D5", "U+1D4D6", "U+1D4D7", "U+1D4D8", "U+1D4D9", "U+1D4DA", "U+1D4DB",
    "U+1D4DC", "U+1D4DD", "U+1D4DE", "U+1D4DF", "U+1D4E0", "U+1D4E1", "U+1D4E2", "U+1D4E3",
    "U+1D4E4", "U+1D4E5", "U+1D4E6", "U+1D4E7", "U+1D4E8", "U+1D4E9", "U+1D4EA", "U+1D4EB",
    "U+1D4EC", "U+1D4ED", "U+1D4EE", "U+1D4EF", "U+1D4F0", "U+1D4F1", "U+1D4F2", "U+1D4F3",
    "U+1D4F4", "U+1D4F5", "U+1D4F6", "U+1D4F7", "U+1D4F8", "U+1D4F9", "U+1D4FA", "U+1D4FB",
    "U+1D4FC", "U+1D4FD", "U+1D4FE", "U+1D4FF", "U+1D500", "U+1D501", "U+1D502", "U+1D503",
    "U+1D504", "U+1D505", "U+1D507", "U+1D508", "U+1D509", "U+1D50A", "U+1D50D", "U+1D50E",
    "U+1D50F", "U+1D510", "U+1D511", "U+1D512", "U+1D513", "U+1D514", "U+1D516", "U+1D517",
    "U+1D518", "U+1D519", "U+1D51A", "U+1D51B", "U+1D51C", "U+1D51E", "U+1D51F", "U+1D520",
    "U+1D521", "U+1D522", "U+1D523", "U+1D524", "U+1D525", "U+1D526", "U+1D527", "U+1D528",
    "U+1D529", "U+1D52A", "U+1D52B", "U+1D52C", "U+1D52D", "U+1D52E", "U+1D52F", "U+1D530",
    "U+1D531", "U+1D532", "U+1D533", "U+1D534", "U+1D535", "U+1D536", "U+1D537", "U+1D538",
    "U+1D539", "U+1D53B", "U+1D53C", "U+1D53D", "U+1D53E", "U+1D540", "U+1D541", "U+1D542",
    "U+1D543", "U+1D544", "U+1D546", "U+1D54A", "U+1D54B", "U+1D54C", "U+1D54D", "U+1D54E",
    "U+1D54F", "U+1D550", "U+1D552", "U+1D553", "U+1D554", "U+1D555", "U+1D556", "U+1D557",
    "U+1D558", "U+1D559", "U+1D55A", "U+1D55B", "U+1D55C", "U+1D55D", "U+1D55E", "U+1D55F",
    "U+1D560", "U+1D561", "U+1D562", "U+1D563", "U+1D564", "U+1D565", "U+1D566", "U+1D567",
    "U+1D568", "U+1D569", "U+1D56A", "U+1D56B", "U+1D56C", "U+1D56D", "U+1D56E", "U+1D56F",
    "U+1D570", "U+1D571", "U+1D572", "U+1D573", "U+1D574", "U+1D575", "U+1D576", "U+1D577",
    "U+1D578", "U+1D579", "U+1D57A", "U+1D57B", "U+1D57C", "U+1D57D", "U+1D57E", "U+1D57F",
    "U+1D580", "U+1D581", "U+1D582", "U+1D583", "U+1D584", "U+1D585", "U+1D586", "U+1D587",
    "U+1D588", "U+1D589", "U+1D58A", "U+1D58B", "U+1D58C", "U+1D58D", "U+1D58E", "U+1D58F",
    "U+1D590", "U+1D591", "U+1D592", "U+1D593", "U+1D594", "U+1D595", "U+1D596", "U+1D597",
    "U+1D598", "U+1D599", "U+1D59A", "U+1D59B", "U+1D59C", "U+1D59D", "U+1D59E", "U+1D59F",
    "U+1D5A0", "U+1D5A1", "U+1D5A2", "U+1D5A3", "U+1D5A4", "U+1D5A5", "U+1D5A6", "U+1D5A7",
    "U+1D5A8", "U+1D5A9", "U+1D5AA", "U+1D5AB", "U+1D5AC", "U+1D5AD", "U+1D5AE", "U+1D5AF",
    "U+1D5B0", "U+1D5B1", "U+1D5B2", "U+1D5B3", "U+1D5B4", "U+1D5B5", "U+1D5B6", "U+1D5B7",
    "U+1D5B8", "U+1D5B9", "U+1D5BA", "U+1D5BB", "U+1D5BC", "U+1D5BD", "U+1D5BE", "U+1D5BF",
    "U+1D5C0", "U+1D5C1", "U+1D5C2", "U+1D5C3", "U+1D5C4", "U+1D5C5", "U+1D5C6", "U+1D5C7",
    "U+1D5C8", "U+1D5C9", "U+1D5CA", "U+1D5CB", "U+1D5CC", "U+1D5CD", "U+1D5CE", "U+1D5CF",
    "U+1D5D0", "U+1D5D1", "U+1D5D2", "U+1D5D3", "U+1D5D4", "U+1D5D5", "U+1D5D6", "U+1D5D7",
    "U+1D5D8", "U+1D5D9", "U+1D5DA", "U+1D5DB", "U+1D5DC", "U+1D5DD", "U+1D5DE", "U+1D5DF",
    "U+1D5E0", "U+1D5E1", "U+1D5E2", "U+1D5E3", "U+1D5E4", "U+1D5E5", "U+1D5E6", "U+1D5E7",
    "U+1D5E8", "U+1D5E9", "U+1D5EA", "U+1D5EB", "U+1D5EC", "U+1D5ED", "U+1D5EE", "U+1D5EF",
    "U+1D5F0", "U+1D5F1", "U+1D5F2", "U+1D5F3", "U+1D5F4", "U+1D5F5", "U+1D5F6", "U+1D5F7",
    "U+1D5F8", "U+1D5F9", "U+1D5FA", "U+1D5FB", "U+1D5FC", "U+1D5FD", "U+1D5FE", "U+1D5FF",
    "U+1D600", "U+1D601", "U+1D602", "U+1D603", "U+1D604", "U+1D605", "U+1D606", "U+1D607",
    "U+1D608", "U+1D609", "U+1D60A", "U+1D60B", "U+1D60C", "U+1D60D", "U+1D60E", "U+1D60F",
    "U+1D610", "U+1D611", "U+1D612", "U+1D613", "U+1D614", "U+1D615", "U+1D616", "U+1D617",
    "U+1D618", "U+1D619", "U+1D61A", "U+1D61B", "U+1D61C", "U+1D61D", "U+1D61E", "U+1D61F",
    "U+1D620", "U+1D621", "U+1D622", "U+1D623", "U+1D624", "U+1D625", "U+1D626", "U+1D627",
    "U+1D628", "U+1D629", "U+1D62A", "U+1D62B", "U+1D62C", "U+1D62D", "U+1D62E", "U+1D62F",
    "U+1D630", "U+1D631", "U+1D632", "U+1D633", "U+1D634", "U+1D635", "U+1D636", "U+1D637",
    "U+1D638", "U+1D639", "U+1D63A", "U+1D63B", "U+1D63C", "U+1D63D", "U+1D63E", "U+1D63F",
    "U+1D640", "U+1D641", "U+1D642", "U+1D643", "U+1D644", "U+1D645", "U+1D646", "U+1D647",
    "U+1D648", "U+1D649", "U+1D64A", "U+1D64B", "U+1D64C", "U+1D64D", "U+1D64E", "U+1D64F",
    "U+1D650", "U+1D651", "U+1D652", "U+1D653", "U+1D654", "U+1D655", "U+1D656", "U+1D657",
    "U+1D658", "U+1D659", "U+1D65A", "U+1D65B", "U+1D65C", "U+1D65D", "U+1D65E", "U+1D65F",
    "U+1D660", "U+1D661", "U+1D662", "U+1D663", "U+1D664", "U+1D665", "U+1D666", "U+1D667",
    "U+1D668", "U+1D669", "U+1D66A", "U+1D66B", "U+1D66C", "U+1D66D", "U+1D66E", "U+1D66F",
    "U+1D670", "U+1D671", "U+1D672", "U+1D673", "U+1D674", "U+1D675", "U+1D676", "U+1D677",
    "U+1D678", "U+1D679", "U+1D67A", "U+1D67B", "U+1D67C", "U+1D67D", "U+1D67E", "U+1D67F",
    "U+1D680", "U+1D681", "U+1D682", "U+1D683", "U+1D684", "U+1D685", "U+1D686", "U+1D687",
    "U+1D688", "U+1D689", "U+1D68A", "U+1D68B", "U+1D68C", "U+1D68D", "U+1D68E", "U+1D68F",
    "U+1D690", "U+1D691", "U+1D692", "U+1D693", "U+1D694", "U+1D695", "U+1D696", "U+1D697",
    "U+1D698", "U+1D699", "U+1D69A", "U+1D69B", "U+1D69C", "U+1D69D", "U+1D69E", "U+1D69F",
    "U+1D6A0", "U+1D6A1", "U+1D6A2", "U+1D6A3", "U+1D6A4", "U+1D6A5", "U+1D6A8", "U+1D6A9",
    "U+1D6AA", "U+1D6AB", "U+1D6AC", "U+1D6AD", "U+1D6AE", "U+1D6AF", "U+1D6B0", "U+1D6B1",
    "U+1D6B2", "U+1D6B3", "U+1D6B4", "U+1D6B5", "U+1D6B6", "U+1D6B7", "U+1D6B8", "U+1D6B9",
    "U+1D6BA", "U+1D6BB", "U+1D6BC", "U+1D6BD", "U+1D6BE", "U+1D6BF", "U+1D6C0", "U+1D6C2",
    "U+1D6C3", "U+1D6C4", "U+1D6C5", "U+1D6C6", "U+1D6C7", "U+1D6C8", "U+1D6C9", "U+1D6CA",
    "U+1D6CB", "U+1D6CC", "U+1D6CD", "U+1D6CE", "U+1D6CF", "U+1D6D0", "U+1D6D1", "U+1D6D2",
    "U+1D6D3", "U+1D6D4", "U+1D6D5", "U+1D6D6", "U+1D6D7", "U+1D6D8", "U+1D6D9", "U+1D6DA",
    "U+1D6DC", "U+1D6DD", "U+1D6DE", "U+1D6DF", "U+1D6E0", "U+1D6E1", "U+1D6E2", "U+1D6E3",
    "U+1D6E4", "U+1D6E5", "U+1D6E6", "U+1D6E7", "U+1D6E8", "U+1D6E9", "U+1D6EA", "U+1D6EB",
    "U+1D6EC", "U+1D6ED", "U+1D6EE", "U+1D6EF", "U+1D6F0", "U+1D6F1", "U+1D6F2", "U+1D6F3",
    "U+1D6F4", "U+1D6F5", "U+1D6F6", "U+1D6F7", "U+1D6F8", "U+1D6F9", "U+1D6FA", "U+1D6FC",
    "U+1D6FD", "U+1D6FE", "U+1D6FF", "U+1D700", "U+1D701", "U+1D702", "U+1D703", "U+1D704",
    "U+1D705", "U+1D706", "U+1D707", "U+1D708", "U+1D709", "U+1D70A", "U+1D70B", "U+1D70C",
    "U+1D70D", "U+1D70E", "U+1D70F", "U+1D710", "U+1D711", "U+1D712", "U+1D713", "U+1D714",
    "U+1D716", "U+1D717", "U+1D718", "U+1D719", "U+1D71A", "U+1D71B", "U+1D71C", "U+1D71D",
    "U+1D71E", "U+1D71F", "U+1D720", "U+1D721", "U+1D722", "U+1D723", "U+1D724", "U+1D725",
    "U+1D726", "U+1D727", "U+1D728", "U+1D729", "U+1D72A", "U+1D72B", "U+1D72C", "U+1D72D",
    "U+1D72E", "U+1D72F", "U+1D730", "U+1D731", "U+1D732", "U+1D733", "U+1D734", "U+1D736",
    "U+1D737", "U+1D738", "U+1D739", "U+1D73A", "U+1D73B", "U+1D73C", "U+1D73D", "U+1D73E",
    "U+1D73F", "U+1D740", "U+1D741", "U+1D742", "U+1D743", "U+1D744", "U+1D745", "U+1D746",
    "U+1D747", "U+1D748", "U+1D749", "U+1D74A", "U+1D74B", "U+1D74C", "U+1D74D", "U+1D74E",
    "U+1D750", "U+1D751", "U+1D752", "U+1D753", "U+1D754", "U+1D755", "U+1D756", "U+1D757",
    "U+1D758", "U+1D759", "U+1D75A", "U+1D75B", "U+1D75C", "U+1D75D", "U+1D75E", "U+1D75F",
    "U+1D760", "U+1D761", "U+1D762", "U+1D763", "U+1D764", "U+1D765", "U+1D766", "U+1D767",
    "U+1D768", "U+1D769", "U+1D76A", "U+1D76B", "U+1D76C", "U+1D76D", "U+1D76E", "U+1D770",
    "U+1D771", "U+1D772", "U+1D773", "U+1D774", "U+1D775", "U+1D776", "U+1D777", "U+1D778",
    "U+1D779", "U+1D77A", "U+1D77B", "U+1D77C", "U+1D77D", "U+1D77E", "U+1D77F", "U+1D780",
    "U+1D781", "U+1D782", "U+1D783", "U+1D784", "U+1D785", "U+1D786", "U+1D787", "U+1D788",
    "U+1D78A", "U+1D78B", "U+1D78C", "U+1D78D", "U+1D78E", "U+1D78F", "U+1D790", "U+1D791",
    "U+1D792", "U+1D793", "U+1D794", "U+1D795", "U+1D796", "U+1D797", "U+1D798", "U+1D799",
    "U+1D79A", "U+1D79B", "U+1D79C", "U+1D79D", "U+1D79E", "U+1D79F", "U+1D7A0", "U+1D7A1",
    "U+1D7A2", "U+1D7A3", "U+1D7A4", "U+1D7A5", "U+1D7A6", "U+1D7A7", "U+1D7A8", "U+1D7AA",
    "U+1D7AB", "U+1D7AC", "U+1D7AD", "U+1D7AE", "U+1D7AF", "U+1D7B0", "U+1D7B1", "U+1D7B2",
    "U+1D7B3", "U+1D7B4", "U+1D7B5", "U+1D7B6", "U+1D7B7", "U+1D7B8", "U+1D7B9", "U+1D7BA",
    "U+1D7BB", "U+1D7BC", "U+1D7BD", "U+1D7BE", "U+1D7BF", "U+1D7C0", "U+1D7C1", "U+1D7C2",
    "U+1D7C4", "U+1D7C5", "U+1D7C6", "U+1D7C7", "U+1D7C8", "U+1D7C9", "U+1D7CA", "U+1D7CB",
    "U+1DF00", "U+1DF01", "U+1DF02", "U+1DF03", "U+1DF04", "U+1DF05", "U+1DF06", "U+1DF07",
    "U+1DF08", "U+1DF09", "U+1DF0B", "U+1DF0C", "U+1DF0D", "U+1DF0E", "U+1DF0F", "U+1DF10",
    "U+1DF11", "U+1DF12", "U+1DF13", "U+1DF14", "U+1DF15", "U+1DF16", "U+1DF17", "U+1DF18",
    "U+1DF19", "U+1DF1A", "U+1DF1B", "U+1DF1C", "U+1DF1D", "U+1DF1E", "U+1F130", "U+1F131",
    "U+1F132", "U+1F133", "U+1F134", "U+1F135", "U+1F136", "U+1F137", "U+1F138", "U+1F139",
    "U+1F13A", "U+1F13B", "U+1F13C", "U+1F13D", "U+1F13E", "U+1F13F", "U+1F140", "U+1F141",
    "U+1F142", "U+1F143", "U+1F144", "U+1F145", "U+1F146", "U+1F147", "U+1F148", "U+1F149",
    "U+1F150", "U+1F151", "U+1F152", "U+1F153", "U+1F154", "U+1F155", "U+1F156", "U+1F157",
    "U+1F158", "U+1F159", "U+1F15A", "U+1F15B", "U+1F15C", "U+1F15D", "U+1F15E", "U+1F15F",
    "U+1F160", "U+1F161", "U+1F162", "U+1F163", "U+1F164", "U+1F165", "U+1F166", "U+1F167",
    "U+1F168", "U+1F169", "U+1F170", "U+1F171", "U+1F172", "U+1F173", "U+1F174", "U+1F175",
    "U+1F176", "U+1F177", "U+1F178", "U+1F179", "U+1F17A", "U+1F17B", "U+1F17C", "U+1F17D",
    "U+1F17E", "U+1F17F", "U+1F180", "U+1F181", "U+1F182", "U+1F183", "U+1F184", "U+1F185",
    "U+1F186", "U+1F187", "U+1F188", "U+1F189"
    }
\* The case-ignorable characters, which str.lower() skips when it looks
\* around a capital sigma.
CaseIgnorable ==
    {
    "'", ".", ":", "^", "U+0060", "¨", "­", "¯", "´", "·", "¸", "ʰ", "ʱ", "ʲ", "ʳ", "ʴ", "ʵ",
    "ʶ", "ʷ", "ʸ", "ʹ", "ʺ", "ʻ", "ʼ", "ʽ", "ʾ", "ʿ", "ˀ", "ˁ", "˂", "˃", "˄", "˅", "ˆ", "ˇ",
    "ˈ", "ˉ", "ˊ", "ˋ", "ˌ", "ˍ", "ˎ", "ˏ", "ː", "ˑ", "˒", "˓", "˔", "˕", "˖", "˗", "˘", "˙",
    "˚", "˛", "˜", "˝", "˞", "˟", "ˠ", "ˡ", "ˢ", "ˣ", "ˤ", "˥", "˦", "˧", "˨", "˩", "˪", "˫",
    "ˬ", "˭", "ˮ", "˯", "˰", "˱", "˲", "˳", "˴", "˵", "˶", "˷", "˸", "˹", "˺", "˻", "˼", "˽",
    "˾", "˿", "U+0300", "U+0301", "U+0302", "U+0303", "U+0304", "U+0305", "U+0306", "U+0307",
    "U+0308", "U+0309", "U+030A", "U+030B", "U+030C", "U+030D", "U+030E", "U+030F", "U+0310",
    "U+0311", "U+0312", "U+0313", "U+0314", "U+0315", "U+0316", "U+0317", "U+0318", "U+0319",
    "U+031A", "U+031B", "U+031C", "U+031D", "U+031E", "U+031F", "U+0320", "U+0321", "U+0322",
    "U+0323", "U+0324", "U+0325", "U+0326", "U+0327", "U+0328", "U+0329", "U+032A", "U+032B",
    "U+032C", "U+032D", "U+032E", "U+032F", "U+0330", "U+0331", "U+0332", "U+0333", "U+0334",
    "U+0335", "U+0336", "U+0337", "U+0338", "U+0339", "U+033A", "U+033B", "U+033C", "U+033D",
    "U+033E", "U+033F", "U+0340", "U+0341", "U+0342", "U+0343", "U+0344", "U+0345", "U+0346",
    "U+0347", "U+0348", "U+0349", "U+034A", "U+034B", "U+034C", "U+034D", "U+034E", "U+034F",
    "U+0350", "U+0351", "U+0352", "U+0353", "U+0354", "U+0355", "U+0356", "U+0357", "U+0358",
    "U+0359", "U+035A", "U+035B", "U+035C", "U+035D", "U+035E", "U+035F", "U+0360", "U+0361",
    "U+0362", "U+0363", "U+0364", "U+0365", "U+0366", "U+0367", "U+0368", "U+0369", "U+036A",
    "U+036B", "U+036C", "U+036D", "U+036E", "U+036F", "U+0374", "U+0375", "U+037A", "΄", "΅",
    "·", "҃", "҄", "҅", "҆", "҇", "҈", "҉", "U+0559", "U+055F", "֑", "֒", "֓", "֔", "֕", "֖",
    "֗", "֘", "֙", "֚", "֛", "֜", "֝", "֞", "֟", "֠", "֡", "֢", "֣", "֤", "֥", "֦", "֧", "֨",
    "֩", "֪", "֫", "֬", "֭", "֮", "֯", "ְ", "ֱ", "ֲ", "ֳ", "ִ", "ֵ", "ֶ", "ַ", "ָ", "ֹ", "ֺ",
    "ֻ", "ּ", "ֽ", "ֿ", "ׁ", "ׂ", "ׄ", "ׅ", "ׇ", "״", "U+0600", "U+0601", "U+0602", "U+0603",
    "U+0604", "U+0605", "U+0610", "U+0611", "U+0612", "U+0613", "U+0614", "U+0615", "U+0616",
    "U+0617", "U+0618", "U+0619", "U+061A", "U+061C", "U+0640", "U+064B", "U+064C", "U+064D",
    "U+064E", "U+064F", "U+0650", "U+0651", "U+0652", "U+0653", "U+0654", "U+0655", "U+0656",
    "U+0657", "U+0658", "U+0659", "U+065A", "U+065B", "U+065C", "U+065D", "U+065E", "U+065F",
    "U+0670", "ۖ", "ۗ", "ۘ", "ۙ", "ۚ", "ۛ", "ۜ", "۝", "۟", "۠", "ۡ", "ۢ", "ۣ", "ۤ", "ۥ", "ۦ",
    "ۧ", "ۨ", "۪", "۫", "۬", "ۭ", "U+070F", "U+0711", "U+0730", "U+0731", "U+0732", "U+0733",
    "U+0734", "U+0735", "U+0736", "U+0737", "U+0738", "U+0739", "U+073A", "U+073B", "U+073C",
    "U+073D", "U+073E", "U+073F", "U+0740", "U+0741", "U+0742", "U+0743", "U+0744", "U+0745",
    "U+0746", "U+0747", "U+0748", "U+0749", "U+074A", "ަ", "ާ", "ި", "ީ", "ު", "ޫ", "ެ", "ޭ",
    "ޮ", "ޯ", "ް", "߫", "߬", "߭", "߮", "߯", "߰", "߱", "߲", "߳", "ߴ", "ߵ", "ߺ", "߽", "U+0816",
    "U+0817", "U+0818", "U+0819", "U+081A", "U+081B", "U+081C", "U+081D", "U+081E", "U+081F",
    "U+0820", "U+0821", "U+0822", "U+0823", "U+0824", "U+0825", "U+0826", "U+0827", "U+0828",
    "U+0829", "U+082A", "U+082B", "U+082C", "U+082D", "U+0859", "U+085A", "U+085B", "࢈", "࢐",
    "࢑", "࢘", "࢙", "࢚", "࢛", "࢜", "࢝", "࢞", "࢟", "ࣉ", "࣊", "࣋", "࣌", "࣍", "࣎", "࣏", "࣐", "࣑",
    "࣒", "࣓", "ࣔ", "ࣕ", "ࣖ", "ࣗ", "ࣘ", "ࣙ", "ࣚ", "ࣛ", "ࣜ", "ࣝ", "ࣞ", "ࣟ", "࣠", "࣡", "࣢", "ࣣ",
    "ࣤ", "ࣥ", "ࣦ", "ࣧ", "ࣨ", "ࣩ", "࣪", "࣫", "࣬", "࣭", "࣮", "࣯", "ࣰ", "ࣱ", "ࣲ", "ࣳ", "ࣴ", "ࣵ",
    "ࣶ", "ࣷ", "ࣸ", "ࣹ", "ࣺ", "ࣻ", "ࣼ", "ࣽ", "ࣾ", "ࣿ", "U+0900", "U+0901", "U+0902", "U+093A",
    "U+093C", "U+0941", "U+0942", "U+0943", "U+0944", "U+0945", "U+0946", "U+0947", "U+0948",
    "U+094D", "U+0951", "U+0952", "U+0953", "U+0954", "U+0955", "U+0956", "U+0957", "U+0962",
    "U+0963", "U+0971", "ঁ", "়", "ু", "ূ", "ৃ", "ৄ", "্", "ৢ", "ৣ", "৾", "U+0A01", "U+0A02",
    "U+0A3C", "U+0A41", "U+0A42", "U+0A47", "U+0A48", "U+0A4B", "U+0A4C", "U+0A4D", "U+0A51",
    "U+0A70", "U+0A71", "U+0A75", "ઁ", "ં", "઼", "ુ", "ૂ", "ૃ", "ૄ", "ૅ", "ે", "ૈ", "્", "ૢ",
    "ૣ", "ૺ", "ૻ", "ૼ", "૽", "૾", "૿", "U+0B01", "U+0B3C", "U+0B3F", "U+0B41", "U+0B42",
    "U+0B43", "U+0B44", "U+0B4D", "U+0B55", "U+0B56", "U+0B62", "U+0B63", "ஂ", "ீ", "்",
    "U+0C00", "U+0C04", "U+0C3C", "U+0C3E", "U+0C3F", "U+0C40", "U+0C46", "U+0C47", "U+0C48",
    "U+0C4A", "U+0C4B", "U+0C4C", "U+0C4D", "U+0C55", "U+0C56", "U+0C62", "U+0C63", "ಁ", "಼",
    "ಿ", "ೆ", "ೌ", "್", "ೢ", "ೣ", "U+0D00", "U+0D01", "U+0D3B", "U+0D3C", "U+0D41", "U+0D42",
    "U+0D43", "U+0D44", "U+0D4D", "U+0D62", "U+0D63", "ඁ", "්", "ි", "ී", "ු", "ූ", "U+0E31",
    "U+0E34", "U+0E35", "U+0E36", "U+0E37", "U+0E38", "U+0E39", "U+0E3A", "U+0E46", "U+0E47",
    "U+0E48", "U+0E49", "U+0E4A", "U+0E4B", "U+0E4C", "U+0E4D", "U+0E4E", "ັ", "ິ", "ີ", "ຶ",
    "ື", "ຸ", "ູ", "຺", "ົ", "ຼ", "ໆ", "່", "້", "໊", "໋", "໌", "ໍ", "U+0F18", "U+0F19",
    "U+0F35", "U+0F37", "U+0F39", "U+0F71", "U+0F72", "U+0F73", "U+0F74", "U+0F75", "U+0F76",
    "U+0F77", "U+0F78", "U+0F79", "U+0F7A", "U+0F7B", "U+0F7C", "U+0F7D", "U+0F7E", "ྀ", "ཱྀ",
    "ྂ", "ྃ", "྄", "྆", "྇", "ྍ", "ྎ", "ྏ", "ྐ", "ྑ", "ྒ", "ྒྷ", "ྔ", "ྕ", "ྖ", "ྗ", "ྙ", "ྚ",
    "ྛ", "ྜ", "ྜྷ", "ྞ", "ྟ", "ྠ", "ྡ", "ྡྷ", "ྣ", "ྤ", "ྥ", "ྦ", "ྦྷ", "ྨ", "ྩ", "ྪ", "ྫ", "ྫྷ",
    "ྭ", "ྮ", "ྯ", "ྰ", "ྱ", "ྲ", "ླ", "ྴ", "ྵ", "ྶ", "ྷ", "ྸ", "ྐྵ", "ྺ", "ྻ", "ྼ", "࿆",
    "U+102D", "U+102E", "U+102F", "U+1030", "U+1032", "U+1033", "U+1034", "U+1035", "U+1036",
    "U+1037", "U+1039", "U+103A", "U+103D", "U+103E", "U+1058", "U+1059", "U+105E", "U+105F",
    "U+1060", "U+1071", "U+1072", "U+1073", "U+1074", "ႂ", "ႅ", "ႆ", "ႍ", "ႝ", "ჼ", "U+135D",
    "U+135E", "U+135F", "U+1712", "U+1713", "U+1714", "U+1732", "U+1733", "U+1752", "U+1753",
    "U+1772", "U+1773", "឴", "឵", "ិ", "ី", "ឹ", "ឺ", "ុ", "ូ", "ួ", "ំ", "៉", "៊", "់", "៌",
    "៍", "៎", "៏", "័", "៑", "្", "៓", "ៗ", "៝", "U+180B", "U+180C", "U+180D", "U+180E",
    "U+180F", "U+1843", "ᢅ", "ᢆ", "ᢩ", "U+1920", "U+1921", "U+1922", "U+1927", "U+1928",
    "U+1932", "U+1939", "U+193A", "U+193B", "U+1A17", "U+1A18", "U+1A1B", "U+1A56", "U+1A58",
    "U+1A59", "U+1A5A", "U+1A5B", "U+1A5C", "U+1A5D", "U+1A5E", "U+1A60", "U+1A62", "U+1A65",
    "U+1A66", "U+1A67", "U+1A68", "U+1A69", "U+1A6A", "U+1A6B", "U+1A6C", "U+1A73", "U+1A74",
    "U+1A75", "U+1A76", "U+1A77", "U+1A78", "U+1A79", "U+1A7A", "U+1A7B", "U+1A7C", "U+1A7F",
    "ᪧ", "᪰", "᪱", "᪲", "᪳", "᪴", "᪵", "᪶", "᪷", "᪸", "᪹", "᪺", "᪻", "᪼", "᪽", "᪾", "ᪿ", "ᫀ",
    "᫁", "᫂", "᫃", "᫄", "᫅", "᫆", "᫇", "᫈", "᫉", "᫊", "᫋", "ᫌ", "ᫍ", "ᫎ", "U+1B00", "U+1B01",
    "U+1B02", "U+1B03", "U+1B34", "U+1B36", "U+1B37", "U+1B38", "U+1B39", "U+1B3A", "U+1B3C",
    "U+1B42", "U+1B6B", "U+1B6C", "U+1B6D", "U+1B6E", "U+1B6F", "U+1B70", "U+1B71", "U+1B72",
    "U+1B73", "ᮀ", "ᮁ", "ᮢ", "ᮣ", "ᮤ", "ᮥ", "ᮨ", "ᮩ", "᮫", "ᮬ", "ᮭ", "᯦", "ᯨ", "ᯩ", "ᯭ", "ᯯ",
    "ᯰ", "ᯱ", "U+1C2C", "U+1C2D", "U+1C2E", "U+1C2F", "U+1C30", "U+1C31", "U+1C32", "U+1C33",
    "U+1C36", "U+1C37", "U+1C78", "U+1C79", "U+1C7A", "U+1C7B", "U+1C7C", "U+1C7D", "᳐", "᳑",
    "᳒", "᳔", "᳕", "᳖", "᳗", "᳘", "᳙", "᳚", "᳛", "᳜", "᳝", "᳞", "᳟", "᳠", "᳢", "᳣", "᳤", "᳥",
    "᳦", "᳧", "᳨", "᳭", "᳴", "᳸", "᳹", "U+1D2C", "U+1D2D", "U+1D2E", "U+1D2F", "U+1D30",
    "U+1D31", "U+1D32", "U+1D33", "U+1D34", "U+1D35", "U+1D36", "U+1D37", "U+1D38", "U+1D39",
    "U+1D3A", "U+1D3B", "U+1D3C", "U+1D3D", "U+1D3E", "U+1D3F", "U+1D40", "U+1D41", "U+1D42",
    "U+1D43", "U+1D44", "U+1D45", "U+1D46", "U+1D47", "U+1D48", "U+1D49", "U+1D4A", "U+1D4B",
    "U+1D4C", "U+1D4D", "U+1D4E", "U+1D4F", "U+1D50", "U+1D51", "U+1D52", "U+1D53", "U+1D54",
    "U+1D55", "U+1D56", "U+1D57", "U+1D58", "U+1D59", "U+1D5A", "U+1D5B", "U+1D5C", "U+1D5D",
    "U+1D5E", "U+1D5F", "U+1D60", "U+1D61", "U+1D62", "U+1D63", "U+1D64", "U+1D65", "U+1D66",
    "U+1D67", "U+1D68", "U+1D69", "U+1D6A", "U+1D78", "ᶛ", "ᶜ", "ᶝ", "ᶞ", "ᶟ", "ᶠ", "ᶡ", "ᶢ",
    "ᶣ", "ᶤ", "ᶥ", "ᶦ", "ᶧ", "ᶨ", "ᶩ", "ᶪ", "ᶫ", "ᶬ", "ᶭ", "ᶮ", "ᶯ", "ᶰ", "ᶱ", "ᶲ", "ᶳ", "ᶴ",
    "ᶵ", "ᶶ", "ᶷ", "ᶸ", "ᶹ", "ᶺ", "ᶻ", "ᶼ", "ᶽ", "ᶾ", "ᶿ", "᷀", "᷁", "᷂", "᷃", "᷄", "᷅", "᷆",
    "᷇", "᷈", "᷉", "᷊", "᷋", "᷌", "᷍", "᷎", "᷏", "᷐", "᷑", "᷒", "ᷓ", "ᷔ", "ᷕ", "ᷖ", "ᷗ", "ᷘ",
    "ᷙ", "ᷚ", "ᷛ", "ᷜ", "ᷝ", "ᷞ", "ᷟ", "ᷠ", "ᷡ", "ᷢ", "ᷣ", "ᷤ", "ᷥ", "ᷦ", "ᷧ", "ᷨ", "ᷩ", "ᷪ",
    "ᷫ", "ᷬ", "ᷭ", "ᷮ", "ᷯ", "ᷰ", "ᷱ", "ᷲ", "ᷳ", "ᷴ", "᷵", "᷶", "᷷", "᷸", "᷹", "᷺", "᷻", "᷼",
    "᷽", "᷾", "᷿", "᾽", "᾿", "῀", "῁", "῍", "῎", "῏", "῝", "῞", "῟", "῭", "΅", "`", "´", "῾",
    "U+200B", "U+200C", "U+200D", "U+200E", "U+200F", "U+2018", "U+2019", "U+2024", "U+2027",
    "U+202A", "U+202B", "U+202C", "U+202D", "U+202E", "U+2060", "U+2061", "U+2062", "U+2063",
    "U+2064", "U+2066", "U+2067", "U+2068", "U+2069", "U+206A", "U+206B", "U+206C", "U+206D",
    "U+206E", "U+206F", "U+2071", "U+207F", "ₐ", "ₑ", "ₒ", "ₓ", "ₔ", "ₕ", "ₖ", "ₗ", "ₘ", "ₙ",
    "ₚ", "ₛ", "ₜ", "⃐", "⃑", "⃒", "⃓", "⃔", "⃕", "⃖", "⃗", "⃘", "⃙", "⃚", "⃛", "⃜", "⃝", "⃞",
    "⃟", "⃠", "⃡", "⃢", "⃣", "⃤", "⃥", "⃦", "⃧", "⃨", "⃩", "⃪", "⃫", "⃬", "⃭", "⃮", "⃯", "⃰",
    "U+2C7C", "U+2C7D", "⳯", "⳰", "⳱", "U+2D6F", "U+2D7F", "ⷠ", "ⷡ", "ⷢ", "ⷣ", "ⷤ", "ⷥ", "ⷦ",
    "ⷧ", "ⷨ", "ⷩ", "ⷪ", "ⷫ", "ⷬ", "ⷭ", "ⷮ", "ⷯ", "ⷰ", "ⷱ", "ⷲ", "ⷳ", "ⷴ", "ⷵ", "ⷶ", "ⷷ", "ⷸ",
    "ⷹ", "ⷺ", "ⷻ", "ⷼ", "ⷽ", "ⷾ", "ⷿ", "U+2E2F", "U+3005", "U+302A", "U+302B", "U+302C",
    "U+302D", "U+3031", "U+3032", "U+3033", "U+3034", "U+3035", "U+303B", "゙", "゚", "゛", "゜",
    "ゝ", "ゞ", "ー", "ヽ", "ヾ", "U+A015", "ꓸ", "ꓹ", "ꓺ", "ꓻ", "ꓼ", "ꓽ", "U+A60C", "U+A66F",
    "U+A670", "U+A671", "U+A672", "U+A674", "U+A675", "U+A676", "U+A677", "U+A678", "U+A679",
    "U+A67A", "U+A67B", "U+A67C", "U+A67D", "U+A67F", "ꚜ", "ꚝ", "ꚞ", "ꚟ", "꛰", "꛱", "U+A700",
    "U+A701", "U+A702", "U+A703", "U+A704", "U+A705", "U+A706", "U+A707", "U+A708", "U+A709",
    "U+A70A", "U+A70B", "U+A70C", "U+A70D", "U+A70E", "U+A70F", "U+A710", "U+A711", "U+A712",
    "U+A713", "U+A714", "U+A715", "U+A716", "U+A717", "U+A718", "U+A719", "U+A71A", "U+A71B",
    "U+A71C", "U+A71D", "U+A71E", "U+A71F", "U+A720", "U+A721", "U+A770", "ꞈ", "꞉", "꞊", "ꟲ",
    "ꟳ", "ꟴ", "ꟸ", "ꟹ", "U+A802", "U+A806", "U+A80B", "U+A825", "U+A826", "U+A82C", "꣄", "ꣅ",
    "꣠", "꣡", "꣢", "꣣", "꣤", "꣥", "꣦", "꣧", "꣨", "꣩", "꣪", "꣫", "꣬", "꣭", "꣮", "꣯", "꣰", "꣱",
    "ꣿ", "U+A926", "U+A927", "U+A928", "U+A929", "U+A92A", "U+A92B", "U+A92C", "U+A92D",
    "U+A947", "U+A948", "U+A949", "U+A94A", "U+A94B", "U+A94C", "U+A94D", "U+A94E", "U+A94F",
    "U+A950", "U+A951", "ꦀ", "ꦁ", "ꦂ", "꦳", "ꦶ", "ꦷ", "ꦸ", "ꦹ", "ꦼ", "ꦽ", "ꧏ", "ꧥ", "ꧦ",
    "U+AA29", "U+AA2A", "U+AA2B", "U+AA2C", "U+AA2D", "U+AA2E", "U+AA31", "U+AA32", "U+AA35",
    "U+AA36", "U+AA43", "U+AA4C", "U+AA70", "U+AA7C", "ꪰ", "ꪲ", "ꪳ", "ꪴ", "ꪷ", "ꪸ", "ꪾ", "꪿",
    "꫁", "ꫝ", "ꫬ", "ꫭ", "ꫳ", "ꫴ", "꫶", "U+AB5B", "U+AB5C", "U+AB5D", "U+AB5E", "U+AB5F",
    "U+AB69", "U+AB6A", "U+AB6B", "ꯥ", "ꯨ", "꯭", "U+FB1E", "﮲", "﮳", "﮴", "﮵", "﮶", "﮷", "﮸",
    "﮹", "﮺", "﮻", "﮼", "﮽", "﮾", "﮿", "﯀", "﯁", "﯂", "U+FE00", "U+FE01", "U+FE02", "U+FE03",
    "U+FE04", "U+FE05", "U+FE06", "U+FE07", "U+FE08", "U+FE09", "U+FE0A", "U+FE0B", "U+FE0C",
    "U+FE0D", "U+FE0E", "U+FE0F", "U+FE13", "U+FE20", "U+FE21", "U+FE22", "U+FE23", "U+FE24",
    "U+FE25", "U+FE26", "U+FE27", "U+FE28", "U+FE29", "U+FE2A", "U+FE2B", "U+FE2C", "U+FE2D",
    "U+FE2E", "U+FE2F", "U+FE52", "U+FE55", "﻿", "U+FF07", "U+FF0E", "U+FF1A", "U+FF3E",
    "U+FF40", "U+FF70", "ﾞ", "ﾟ", "￣", "￹", "￺", "￻", "U+101FD", "U+102E0", "U+10376",
    "U+10377", "U+10378", "U+10379", "U+1037A", "U+10780", "U+10781", "U+10782", "U+10783",
    "U+10784", "U+10785", "U+10787", "U+10788", "U+10789", "U+1078A", "U+1078B", "U+1078C",
    "U+1078D", "U+1078E", "U+1078F", "U+10790", "U+10791", "U+10792", "U+10793", "U+10794",
    "U+10795", "U+10796", "U+10797", "U+10798", "U+10799", "U+1079A", "U+1079B", "U+1079C",
    "U+1079D", "U+1079E", "U+1079F", "U+107A0", "U+107A1", "U+107A2", "U+107A3", "U+107A4",
    "U+107A5", "U+107A6", "U+107A7", "U+107A8", "U+107A9", "U+107AA", "U+107AB", "U+107AC",
    "U+107AD", "U+107AE", "U+107AF", "U+107B0", "U+107B2", "U+107B3", "U+107B4", "U+107B5",
    "U+107B6", "U+107B7", "U+107B8", "U+107B9", "U+107BA", "U+10A01", "U+10A02", "U+10A03",
    "U+10A05", "U+10A06", "U+10A0C", "U+10A0D", "U+10A0E", "U+10A0F", "U+10A38", "U+10A39",
    "U+10A3A", "U+10A3F", "U+10AE5", "U+10AE6", "U+10D24", "U+10D25", "U+10D26", "U+10D27",
    "U+10EAB", "U+10EAC", "U+10F46", "U+10F47", "U+10F48", "U+10F49", "U+10F4A", "U+10F4B",
    "U+10F4C", "U+10F4D", "U+10F4E", "U+10F4F", "U+10F50", "U+10F82", "U+10F83", "U+10F84",
    "U+10F85", "U+11001", "U+11038", "U+11039", "U+1103A", "U+1103B", "U+1103C", "U+1103D",
    "U+1103E", "U+1103F", "U+11040", "U+11041", "U+11042", "U+11043", "U+11044", "U+11045",
    "U+11046", "U+11070", "U+11073", "U+11074", "U+1107F", "U+11080", "U+11081", "U+110B3",
    "U+110B4", "U+110B5", "U+110B6", "U+110B9", "U+110BA", "U+110BD", "U+110C2", "U+110CD",
    "U+11100", "U+11101", "U+11102", "U+11127", "U+11128", "U+11129", "U+1112A", "U+1112B",
    "U+1112D", "U+1112E", "U+1112F", "U+11130", "U+11131", "U+11132", "U+11133", "U+11134",
    "U+11173", "U+11180", "U+11181", "U+111B6", "U+111B7", "U+111B8", "U+111B9", "U+111BA",
    "U+111BB", "U+111BC", "U+111BD", "U+111BE", "U+111C9", "U+111CA", "U+111CB", "U+111CC",
    "U+111CF", "U+1122F", "U+11230", "U+11231", "U+11234", "U+11236", "U+11237", "U+1123E",
    "U+112DF", "U+112E3", "U+112E4", "U+112E5", "U+112E6", "U+112E7", "U+112E8", "U+112E9",
    "U+112EA", "U+11300", "U+11301", "U+1133B", "U+1133C", "U+11340", "U+11366", "U+11367",
    "U+11368", "U+11369", "U+1136A", "U+1136B", "U+1136C", "U+11370", "U+11371", "U+11372",
    "U+11373", "U+11374", "U+11438", "U+11439", "U+1143A", "U+1143B", "U+1143C", "U+1143D",
    "U+1143E", "U+1143F", "U+11442", "U+11443", "U+11444", "U+11446", "U+1145E", "U+114B3",
    "U+114B4", "U+114B5", "U+114B6", "U+114B7", "U+114B8", "U+114BA", "U+114BF", "U+114C0",
    "U+114C2", "U+114C3", "U+115B2", "U+115B3", "U+115B4", "U+115B5", "U+115BC", "U+115BD",
    "U+115BF", "U+115C0", "U+115DC", "U+115DD", "U+11633", "U+11634", "U+11635", "U+11636",
    "U+11637", "U+11638", "U+11639", "U+1163A", "U+1163D", "U+1163F", "U+11640", "U+116AB",
    "U+116AD", "U+116B0", "U+116B1", "U+116B2", "U+116B3", "U+116B4", "U+116B5", "U+116B7",
    "U+1171D", "U+1171E", "U+1171F", "U+11722", "U+11723", "U+11724", "U+11725", "U+11727",
    "U+11728", "U+11729", "U+1172A", "U+1172B", "U+1182F", "U+11830", "U+11831", "U+11832",
    "U+11833", "U+11834", "U+11835", "U+11836", "U+11837", "U+11839", "U+1183A", "U+1193B",
    "U+1193C", "U+1193E", "U+11943", "U+119D4", "U+119D5", "U+119D6", "U+119D7", "U+119DA",
    "U+119DB", "U+119E0", "U+11A01", "U+11A02", "U+11A03", "U+11A04", "U+11A05", "U+11A06",
    "U+11A07", "U+11A08", "U+11A09", "U+11A0A", "U+11A33", "U+11A34", "U+11A35", "U+11A36",
    "U+11A37", "U+11A38", "U+11A3B", "U+11A3C", "U+11A3D", "U+11A3E", "U+11A47", "U+11A51",
    "U+11A52", "U+11A53", "U+11A54", "U+11A55", "U+11A56", "U+11A59", "U+11A5A", "U+11A5B",
    "U+11A8A", "U+11A8B", "U+11A8C", "U+11A8D", "U+11A8E", "U+11A8F", "U+11A90", "U+11A91",
    "U+11A92", "U+11A93", "U+11A94", "U+11A95", "U+11A96", "U+11A98", "U+11A99", "U+11C30",
    "U+11C31", "U+11C32", "U+11C33", "U+11C34", "U+11C35", "U+11C36", "U+11C38", "U+11C39",
    "U+11C3A", "U+11C3B", "U+11C3C", "U+11C3D", "U+11C3F", "U+11C92", "U+11C93", "U+11C94",
    "U+11C95", "U+11C96", "U+11C97", "U+11C98", "U+11C99", "U+11C9A", "U+11C9B", "U+11C9C",
    "U+11C9D", "U+11C9E", "U+11C9F", "U+11CA0", "U+11CA1", "U+11CA2", "U+11CA3", "U+11CA4",
    "U+11CA5", "U+11CA6", "U+11CA7", "U+11CAA", "U+11CAB", "U+11CAC", "U+11CAD", "U+11CAE",
    "U+11CAF", "U+11CB0", "U+11CB2", "U+11CB3", "U+11CB5", "U+11CB6", "U+11D31", "U+11D32",
    "U+11D33", "U+11D34", "U+11D35", "U+11D36", "U+11D3A", "U+11D3C", "U+11D3D", "U+11D3F",
    "U+11D40", "U+11D41", "U+11D42", "U+11D43", "U+11D44", "U+11D45", "U+11D47", "U+11D90",
    "U+11D91", "U+11D95", "U+11D97", "U+11EF3", "U+11EF4", "U+13430", "U+13431", "U+13432",
    "U+13433", "U+13434", "U+13435", "U+13436", "U+13437", "U+13438", "U+16AF0", "U+16AF1",
    "U+16AF2", "U+16AF3", "U+16AF4", "U+16B30", "U+16B31", "U+16B32", "U+16B33", "U+16B34",
    "U+16B35", "U+16B36", "U+16B40", "U+16B41", "U+16B42", "U+16B43", "U+16F4F", "U+16F8F",
    "U+16F90", "U+16F91", "U+16F92", "U+16F93", "U+16F94", "U+16F95", "U+16F96", "U+16F97",
    "U+16F98", "U+16F99", "U+16F9A", "U+16F9B", "U+16F9C", "U+16F9D", "U+16F9E", "U+16F9F",
    "U+16FE0", "U+16FE1", "U+16FE3", "U+16FE4", "U+1AFF0", "U+1AFF1", "U+1AFF2", "U+1AFF3",
    "U+1AFF5", "U+1AFF6", "U+1AFF7", "U+1AFF8", "U+1AFF9", "U+1AFFA", "U+1AFFB", "U+1AFFD",
    "U+1AFFE", "U+1BC9D", "U+1BC9E", "U+1BCA0", "U+1BCA1", "U+1BCA2", "U+1BCA3", "U+1CF00",
    "U+1CF01", "U+1CF02", "U+1CF03", "U+1CF04", "U+1CF05", "U+1CF06", "U+1CF07", "U+1CF08",
    "U+1CF09", "U+1CF0A", "U+1CF0B", "U+1CF0C", "U+1CF0D", "U+1CF0E", "U+1CF0F", "U+1CF10",
    "U+1CF11", "U+1CF12", "U+1CF13", "U+1CF14", "U+1CF15", "U+1CF16", "U+1CF17", "U+1CF18",
    "U+1CF19", "U+1CF1A", "U+1CF1B", "U+1CF1C", "U+1CF1D", "U+1CF1E", "U+1CF1F", "U+1CF20",
    "U+1CF21", "U+1CF22", "U+1CF23", "U+1CF24", "U+1CF25", "U+1CF26", "U+1CF27", "U+1CF28",
    "U+1CF29", "U+1CF2A", "U+1CF2B", "U+1CF2C", "U+1CF2D", "U+1CF30", "U+1CF31", "U+1CF32",
    "U+1CF33", "U+1CF34", "U+1CF35", "U+1CF36", "U+1CF37", "U+1CF38", "U+1CF39", "U+1CF3A",
    "U+1CF3B", "U+1CF3C", "U+1CF3D", "U+1CF3E", "U+1CF3F", "U+1CF40", "U+1CF41", "U+1CF42",
    "U+1CF43", "U+1CF44", "U+1CF45", "U+1CF46", "U+1D167", "U+1D168", "U+1D169", "U+1D173",
    "U+1D174", "U+1D175", "U+1D176", "U+1D177", "U+1D178", "U+1D179", "U+1D17A", "U+1D17B",
    "U+1D17C", "U+1D17D", "U+1D17E", "U+1D17F", "U+1D180", "U+1D181", "U+1D182", "U+1D185",
    "U+1D186", "U+1D187", "U+1D188", "U+1D189", "U+1D18A", "U+1D18B", "U+1D1AA", "U+1D1AB",
    "U+1D1AC", "U+1D1AD", "U+1D242", "U+1D243", "U+1D244", "U+1DA00", "U+1DA01", "U+1DA02",
    "U+1DA03", "U+1DA04", "U+1DA05", "U+1DA06", "U+1DA07", "U+1DA08", "U+1DA09", "U+1DA0A",
    "U+1DA0B", "U+1DA0C", "U+1DA0D", "U+1DA0E", "U+1DA0F", "U+1DA10", "U+1DA11", "U+1DA12",
    "U+1DA13", "U+1DA14", "U+1DA15", "U+1DA16", "U+1DA17", "U+1DA18", "U+1DA19", "U+1DA1A",
    "U+1DA1B", "U+1DA1C", "U+1DA1D", "U+1DA1E", "U+1DA1F", "U+1DA20", "U+1DA21", "U+1DA22",
    "U+1DA23", "U+1DA24", "U+1DA25", "U+1DA26", "U+1DA27", "U+1DA28", "U+1DA29", "U+1DA2A",
    "U+1DA2B", "U+1DA2C", "U+1DA2D", "U+1DA2E", "U+1DA2F", "U+1DA30", "U+1DA31", "U+1DA32",
    "U+1DA33", "U+1DA34", "U+1DA35", "U+1DA36", "U+1DA3B", "U+1DA3C", "U+1DA3D", "U+1DA3E",
    "U+1DA3F", "U+1DA40", "U+1DA41", "U+1DA42", "U+1DA43", "U+1DA44", "U+1DA45", "U+1DA46",
    "U+1DA47", "U+1DA48", "U+1DA49", "U+1DA4A", "U+1DA4B", "U+1DA4C", "U+1DA4D", "U+1DA4E",
    "U+1DA4F", "U+1DA50", "U+1DA51", "U+1DA52", "U+1DA53", "U+1DA54", "U+1DA55", "U+1DA56",
    "U+1DA57", "U+1DA58", "U+1DA59", "U+1DA5A", "U+1DA5B", "U+1DA5C", "U+1DA5D", "U+1DA5E",
    "U+1DA5F", "U+1DA60", "U+1DA61", "U+1DA62", "U+1DA63", "U+1DA64", "U+1DA65", "U+1DA66",
    "U+1DA67", "U+1DA68", "U+1DA69", "U+1DA6A", "U+1DA6B", "U+1DA6C", "U+1DA75", "U+1DA84",
    "U+1DA9B", "U+1DA9C", "U+1DA9D", "U+1DA9E", "U+1DA9F", "U+1DAA1", "U+1DAA2", "U+1DAA3",
    "U+1DAA4", "U+1DAA5", "U+1DAA6", "U+1DAA7", "U+1DAA8", "U+1DAA9", "U+1DAAA", "U+1DAAB",
    "U+1DAAC", "U+1DAAD", "U+1DAAE", "U+1DAAF", "U+1E000", "U+1E001", "U+1E002", "U+1E003",
    "U+1E004", "U+1E005", "U+1E006", "U+1E008", "U+1E009", "U+1E00A", "U+1E00B", "U+1E00C",
    "U+1E00D", "U+1E00E", "U+1E00F", "U+1E010", "U+1E011", "U+1E012", "U+1E013", "U+1E014",
    "U+1E015", "U+1E016", "U+1E017", "U+1E018", "U+1E01B", "U+1E01C", "U+1E01D", "U+1E01E",
    "U+1E01F", "U+1E020", "U+1E021", "U+1E023", "U+1E024", "U+1E026", "U+1E027", "U+1E028",
    "U+1E029", "U+1E02A", "U+1E130", "U+1E131", "U+1E132", "U+1E133", "U+1E134", "U+1E135",
    "U+1E136", "U+1E137", "U+1E138", "U+1E139", "U+1E13A", "U+1E13B", "U+1E13C", "U+1E13D",
    "U+1E2AE", "U+1E2EC", "U+1E2ED", "U+1E2EE", "U+1E2EF", "U+1E8D0", "U+1E8D1", "U+1E8D2",
    "U+1E8D3", "U+1E8D4", "U+1E8D5", "U+1E8D6", "U+1E944", "U+1E945", "U+1E946", "U+1E947",
    "U+1E948", "U+1E949", "U+1E94A", "U+1E94B", "U+1F3FB", "U+1F3FC", "U+1F3FD", "U+1F3FE",
    "U+1F3FF", "U+E0001", "U+E0020", "U+E0021", "U+E0022", "U+E0023", "U+E0024", "U+E0025",
    "U+E0026", "U+E0027", "U+E0028", "U+E0029", "U+E002A", "U+E002B", "U+E002C", "U+E002D",
    "U+E002E", "U+E002F", "U+E0030", "U+E0031", "U+E0032", "U+E0033", "U+E0034", "U+E0035",
    "U+E0036", "U+E0037", "U+E0038", "U+E0039", "U+E003A", "U+E003B", "U+E003C", "U+E003D",
    "U+E003E", "U+E003F", "U+E0040", "U+E0041", "U+E0042", "U+E0043", "U+E0044", "U+E0045",
    "U+E0046", "U+E0047", "U+E0048", "U+E0049", "U+E004A", "U+E004B", "U+E004C", "U+E004D",
    "U+E004E", "U+E004F", "U+E0050", "U+E0051", "U+E0052", "U+E0053", "U+E0054", "U+E0055",
    "U+E0056", "U+E0057", "U+E0058", "U+E0059", "U+E005A", "U+E005B", "U+E005C", "U+E005D",
    "U+E005E", "U+E005F", "U+E0060", "U+E0061", "U+E0062", "U+E0063", "U+E0064", "U+E0065",
    "U+E0066", "U+E0067", "U+E0068", "U+E0069", "U+E006A", "U+E006B", "U+E006C", "U+E006D",
    "U+E006E", "U+E006F", "U+E0070", "U+E0071", "U+E0072", "U+E0073", "U+E0074", "U+E0075",
    "U+E0076", "U+E0077", "U+E0078", "U+E0079", "U+E007A", "U+E007B", "U+E007C", "U+E007D",
    "U+E007E", "U+E007F", "U+E0100", "U+E0101", "U+E0102", "U+E0103", "U+E0104", "U+E0105",
    "U+E0106", "U+E0107", "U+E0108", "U+E0109", "U+E010A", "U+E010B", "U+E010C", "U+E010D",
    "U+E010E", "U+E010F", "U+E0110", "U+E0111", "U+E0112", "U+E0113", "U+E0114", "U+E0115",
    "U+E0116", "U+E0117", "U+E0118", "U+E0119", "U+E011A", "U+E011B", "U+E011C", "U+E011D",
    "U+E011E", "U+E011F", "U+E0120", "U+E0121", "U+E0122", "U+E0123", "U+E0124", "U+E0125",
    "U+E0126", "U+E0127", "U+E0128", "U+E0129", "U+E012A", "U+E012B", "U+E012C", "U+E012D",
    "U+E012E", "U+E012F", "U+E0130", "U+E0131", "U+E0132", "U+E0133", "U+E0134", "U+E0135",
    "U+E0136", "U+E0137", "U+E0138", "U+E0139", "U+E013A", "U+E013B", "U+E013C", "U+E013D",
    "U+E013E", "U+E013F", "U+E0140", "U+E0141", "U+E0142", "U+E0143", "U+E0144", "U+E0145",
    "U+E0146", "U+E0147", "U+E0148", "U+E0149", "U+E014A", "U+E014B", "U+E014C", "U+E014D",
    "U+E014E", "U+E014F", "U+E0150", "U+E0151", "U+E0152", "U+E0153", "U+E0154", "U+E0155",
    "U+E0156", "U+E0157", "U+E0158", "U+E0159", "U+E015A", "U+E015B", "U+E015C", "U+E015D",
    "U+E015E", "U+E015F", "U+E0160", "U+E0161", "U+E0162", "U+E0163", "U+E0164", "U+E0165",
    "U+E0166", "U+E0167", "U+E0168", "U+E0169", "U+E016A", "U+E016B", "U+E016C", "U+E016D",
    "U+E016E", "U+E016F", "U+E0170", "U+E0171", "U+E0172", "U+E0173", "U+E0174", "U+E0175",
    "U+E0176", "U+E0177", "U+E0178", "U+E0179", "U+E017A", "U+E017B", "U+E017C", "U+E017D",
    "U+E017E", "U+E017F", "U+E0180", "U+E0181", "U+E0182", "U+E0183", "U+E0184", "U+E0185",
    "U+E0186", "U+E0187", "U+E0188", "U+E0189", "U+E018A", "U+E018B", "U+E018C", "U+E018D",
    "U+E018E", "U+E018F", "U+E0190", "U+E0191", "U+E0192", "U+E0193", "U+E0194", "U+E0195",
    "U+E0196", "U+E0197", "U+E0198", "U+E0199", "U+E019A", "U+E019B", "U+E019C", "U+E019D",
    "U+E019E", "U+E019F", "U+E01A0", "U+E01A1", "U+E01A2", "U+E01A3", "U+E01A4", "U+E01A5",
    "U+E01A6", "U+E01A7", "U+E01A8", "U+E01A9", "U+E01AA", "U+E01AB", "U+E01AC", "U+E01AD",
    "U+E01AE", "U+E01AF", "U+E01B0", "U+E01B1", "U+E01B2", "U+E01B3", "U+E01B4", "U+E01B5",
    "U+E01B6", "U+E01B7", "U+E01B8", "U+E01B9", "U+E01BA", "U+E01BB", "U+E01BC", "U+E01BD",
    "U+E01BE", "U+E01BF", "U+E01C0", "U+E01C1", "U+E01C2", "U+E01C3", "U+E01C4", "U+E01C5",
    "U+E01C6", "U+E01C7", "U+E01C8", "U+E01C9", "U+E01CA", "U+E01CB", "U+E01CC", "U+E01CD",
    "U+E01CE", "U+E01CF", "U+E01D0", "U+E01D1", "U+E01D2", "U+E01D3", "U+E01D4", "U+E01D5",
    "U+E01D6", "U+E01D7", "U+E01D8", "U+E01D9", "U+E01DA", "U+E01DB", "U+E01DC", "U+E01DD",
    "U+E01DE", "U+E01DF", "U+E01E0", "U+E01E1", "U+E01E2", "U+E01E3", "U+E01E4", "U+E01E5",
    "U+E01E6", "U+E01E7", "U+E01E8", "U+E01E9", "U+E01EA", "U+E01EB", "U+E01EC", "U+E01ED",
    "U+E01EE", "U+E01EF"
    }
\* The characters str.lower() takes as cased when it looks around a capital
\* sigma: the letters of the two tables and the cased characters that have
\* no entry in them.
Cased == Range(UpperCase) \cup Range(LowerCase) \cup OtherCased

\* Whether the capital sigma at str[i] ends a word: the nearest character
\* before it that is not case-ignorable is cased, and the nearest one after
\* it, if any, is not.
final_sigma(str, i) ==
    LET before == {j \in 1..(i - 1) : str[j] \notin CaseIgnorable}
        after == {j \in (i + 1)..Len(str) : str[j] \notin CaseIgnorable}
    IN /\ before # {}
       /\ str[CHOOSE j \in before : \A k \in before : k <= j] \in Cased
       /\ \/ after = {}
          \/ str[CHOOSE j \in after : \A k \in after : j <= k] \notin Cased

\* The lower-case form of each character of UpperCase.
ToLower ==
    [c \in Range(UpperCase) |->
        LowerCase[CHOOSE k \in DOMAIN UpperCase : UpperCase[k] = c]]

\* sep.join(parts)
RECURSIVE join(_, _)
join(sep, parts) ==
    IF parts = <<>> THEN <<>>
    ELSE IF Len(parts) = 1 THEN parts[1]
    ELSE parts[1] \o sep \o join(sep, Tail(parts))

\* What str.lower() puts for the character at str[i]: a capital sigma
\* becomes the final form at the end of a word, a capital I with dot above
\* an i and a combining dot, every other cased character its lower-case
\* form.
lower_at(str, i) ==
    IF str[i] = "Σ" THEN (IF final_sigma(str, i) THEN <<"ς">> ELSE <<"σ">>)
    ELSE IF str[i] = "U+0130" THEN <<"i", "U+0307">>
    ELSE IF str[i] \in DOMAIN ToLower THEN <<ToLower[str[i]]>>
    ELSE <<str[i]>>

\* str.lower()
lower(str) ==
    IF "U+0130" \in Range(str)
    THEN join(<<>>, [i \in DOMAIN str |-> lower_at(str, i)])
    ELSE [i \in DOMAIN str |-> lower_at(str, i)[1]]

\* kw in text
contains(text, kw) ==
    \E i \in 0..(Len(text) - Len(kw)) : SubSeq(text, i + 1, i + Len(kw)) = kw

RELEVANCE_ORDER == [high |-> 3, medium |-> 2, low |-> 1]

\* RELEVANCE_ORDER.get(key, default)
relevance_order_get(key, default) ==
    IF key \in DOMAIN RELEVANCE_ORDER THEN RELEVANCE_ORDER[key] ELSE default

\* Mutant: the test for an empty sub_sectors is lost.
matches_sectors_without_match_all(extraction_sectors, sub_sectors) ==
    Range(extraction_sectors) \cap Range(sub_sectors) # {}

\* Mutant: a tier has to be strictly above the threshold.
matches_threshold_strictly_above(extraction_relevance, threshold) ==
    LET threshold_val == IF IsNull(threshold) THEN 2
                         ELSE relevance_order_get(threshold[1], 2)
    IN \E i \in DOMAIN extraction_relevance :
          relevance_order_get(extraction_relevance[i], 0) > threshold_val

\* threshold is Null when the subscription holds no value for it.
RECURSIVE matches_threshold(_, _)
matches_threshold(extraction_relevance, threshold) ==
    LET threshold_val == IF IsNull(threshold) THEN 2
                         ELSE relevance_order_get(threshold[1], 2)
    IN IF extraction_relevance = <<>> THEN FALSE
       ELSE IF relevance_order_get(Head(extraction_relevance), 0) >= threshold_val
            THEN TRUE
            ELSE matches_threshold(Tail(extraction_relevance), threshold)

matches_sectors(extraction_sectors, sub_sectors) ==
    IF sub_sectors = <<>> THEN TRUE
    ELSE Range(extraction_sectors) \cap Range(sub_sectors) # {}

matches_keywords(extraction, keywords) ==
    IF keywords = <<>> THEN TRUE
    ELSE LET text == lower(join(<<" ">>,
                         <<Get(extraction.title, <<>>),
                           Get(extraction.summary, <<>>),
                           join(<<" ">>, extraction.companies_mentioned)>>))
         IN \E k \in DOMAIN keywords : contains(text, lower(keywords[k]))

\* Mutant: the keyword test is lost.
RECURSIVE filter_without_keywords(_, _)
filter_without_keywords(extractions, subscription) ==
    IF extractions = <<>> THEN <<>>
    ELSE LET ext == Head(extractions)
             rest == filter_without_keywords(Tail(extractions), subscription)
         IN IF ~matches_threshold(ext.relevance, subscription.relevance_threshold)
            THEN rest
            ELSE IF ~matches_sectors(ext.sectors, subscription.sectors) THEN rest
            ELSE <<ext>> \o rest

RECURSIVE filter_extractions_for_subscription(_, _)
filter_extractions_for_subscription(extractions, subscription) ==
    IF extractions = <<>> THEN <<>>
    ELSE LET ext == Head(extractions)
             rest == filter_extractions_for_subscription(Tail(extractions), subscription)
         IN IF ~matches_threshold(ext.relevance, subscription.relevance_threshold)
            THEN rest
            ELSE IF ~matches_sectors(ext.sectors, subscription.sectors) THEN rest
            ELSE IF ~matches_keywords(ext, subscription.keywords) THEN rest
            ELSE <<ext>> \o rest

\* The extractions table joined with documents(publish_date).
Extractions ==
    <<[id |-> 1, publish_date |-> 1,
       title |-> Some(<<"N", "e", "w", " ", "T", "a", "r", "i", "f", "f">>),
       summary |-> Some(<<"d", "u", "t", "y">>),
       companies_mentioned |-> <<<<"A", "c", "m", "e">>>>,
       sectors |-> <<"trade">>, relevance |-> <<"high">>],
      [id |-> 2, publish_date |-> 1,
       title |-> Some(<<"B", "a", "n", "k", "s">>),
       summary |-> Null,
       companies_mentioned |-> <<>>,
       sectors |-> <<"finance">>, relevance |-> <<"low", "medium">>],
      [id |-> 3, publish_date |-> 2,
       title |-> Some(<<"F", "a", "r", "m", "s">>),
       summary |-> Some(<<"a", "i", "d">>),
       companies_mentioned |-> <<>>,
       sectors |-> <<>>, relevance |-> <<"low">>]>>
ExtIds == {Extractions[i].id : i \in DOMAIN Extractions}

\* The rows a subscriptions table may hold.
SubscriptionRows ==
    {[is_verified |-> TRUE, unsubscribed_at |-> Null, relevance_threshold |-> Null,
      sectors |-> <<>>, keywords |-> <<>>],
     [is_verified |-> TRUE, unsubscribed_at |-> Null, relevance_threshold |-> Some("high"),
      sectors |-> <<>>, keywords |-> <<<<"T", "A", "R", "I", "F", "F">>>>],
     [is_verified |-> TRUE, unsubscribed_at |-> Null, relevance_threshold |-> Some("low"),
      sectors |-> <<"energy">>, keywords |-> <<>>],
     [is_verified |-> TRUE, unsubscribed_at |-> Null, relevance_threshold |-> Some("medium"),
      sectors |-> <<>>, keywords |-> <<<<"t", "a", "r", "i", "f", "f">>>>],
     [is_verified |-> FALSE, unsubscribed_at |-> Null, relevance_threshold |-> Some("low"),
      sectors |-> <<>>, keywords |-> <<>>],
     [is_verified |-> TRUE, unsubscribed_at |-> Some(0), relevance_threshold |-> Some("low"),
      sectors |-> <<>>, keywords |-> <<>>]}
StdSubs == 1..MaxStdSubs

\* select ... .eq("is_verified", True).is_("unsubscribed_at", "null")
fetch_active_subscriptions(tbl) ==
    {s \in DOMAIN tbl : tbl[s].is_verified /\ IsNull(tbl[s].unsubscribed_at)}

\* the embedded documents row is null unless its publish_date is date
fetch_extractions_for_date(tbl, date) ==
    {e \in Range(tbl) : e.publish_date = date}

StdIdle ==
    [pc |-> "idle", runs |-> 0, target_date |-> Null, dry_run |-> FALSE,
     queue |-> <<>>, extractions |-> <<>>,
     stats |-> [sent |-> 0, failed |-> 0, skipped |-> 0]]

NotStd == UNCHANGED <<proVars, storeVars, now, crawlVars, matchVars, extractVars>>

\* send_digests(date, dry_run) up to the loop over the subscriptions.
StdStart(date, dry_run) ==
    /\ std.pc \in {"idle", "done", "raised"}
    /\ std.runs < MaxStdRuns
    /\ LET target_date == IF IsNull(date) THEN now - 1 ELSE date[1]
           begun == [StdIdle EXCEPT !.runs = std.runs + 1,
                                    !.target_date = Some(target_date),
                                    !.dry_run = dry_run]
       IN \/ \* a client or a query raises: send_digests raises
             std' = [begun EXCEPT !.pc = "raised"]
          \/ \E subs \in Orders(fetch_active_subscriptions(subscriptions)) :
                IF subs = <<>> THEN std' = [begun EXCEPT !.pc = "done"]
                ELSE \E extractions \in
                         Orders(fetch_extractions_for_date(Extractions, target_date)) :
                        std' = [begun EXCEPT !.pc = "loop", !.queue = subs,
                                             !.extractions = extractions]
    /\ UNCHANGED <<subscriptions, std_delivered>>
    /\ NotStd

\* One pass of "for sub in subscriptions"; the return after the last one.
StdSub ==
    /\ std.pc = "loop"
    /\ LET sub == Head(std.queue)
           matching == filter_extractions_for_subscription(std.extractions,
                                                           subscriptions[sub])
           next == [std EXCEPT !.queue = Tail(@),
                               !.pc = IF Tail(std.queue) = <<>> THEN "done" ELSE "loop"]
       IN IF matching = <<>>
          THEN /\ std' = [next EXCEPT !.stats.skipped = @ + 1]
               /\ UNCHANGED std_delivered
          ELSE IF std.dry_run
          THEN /\ std' = [next EXCEPT !.stats.sent = @ + 1]
               /\ UNCHANGED std_delivered
          ELSE \/ \* resend accepts the message
                  /\ std' = [next EXCEPT !.stats.sent = @ + 1]
                  /\ std_delivered' =
                        [k \in DOMAIN std_delivered |->
                            IF k[1] = sub /\ \E i \in DOMAIN matching : matching[i].id = k[2]
                            THEN std_delivered[k] + 1 ELSE std_delivered[k]]
               \/ \* RESEND_API_KEY is not set, or the send raises
                  /\ std' = [next EXCEPT !.stats.failed = @ + 1]
                  /\ UNCHANGED std_delivered
    /\ UNCHANGED subscriptions
    /\ NotStd

InitStd ==
    /\ subscriptions \in [StdSubs -> SubscriptionRows]
    /\ std = StdIdle
    /\ std_delivered = [k \in StdSubs \X ExtIds |-> 0]
    /\ now = 2
    /\ ProOff /\ StoreOff
    /\ crawl = CrawlOff /\ documents = <<>> /\ next_id = 1 /\ ingest = <<>>
    /\ m_in = <<>> /\ m_out = <<>>
    /\ ExtractOff

NextStd ==
    \/ \E date \in {Null} \cup {Some(d) : d \in Dates}, dry_run \in BOOLEAN :
          StdStart(date, dry_run)
    \/ StdSub

SpecStd == InitStd /\ [][NextStd]_vars

\* The two digest senders, send_digests over the standard tables or the
\* batch jobs of the pro pipeline over theirs.
InitDigests == InitStd \/ InitSeq
NextDigests == NextStd \/ (procs # <<>> /\ NextSeq)
SpecDigests == InitDigests /\ [][NextDigests]_vars

(***************************************************************************)
(* The subscription rules as pure functions of their arguments             *)
(***************************************************************************)
Tiers == {"low", "medium", "high", "critical"}
Thresholds == {Null, Some("low"), Some("medium"), Some("high"), Some("urgent")}

SectorTags == {"energy", "finance", "trade"}

ApplyMatchesThreshold ==
    /\ m_in.fn = "matches_threshold"
    /\ IsNull(m_out)
    /\ m_out' = Some(matches_threshold(m_in.tiers, m_in.threshold))
    /\ UNCHANGED <<m_in, proVars, storeVars, now, crawlVars, stdVars, extractVars>>

ApplyMatchesSectors ==
    /\ m_in.fn = "matches_sectors"
    /\ IsNull(m_out)
    /\ m_out' = Some(matches_sectors(m_in.extraction_sectors, m_in.sub_sectors))
    /\ UNCHANGED <<m_in, proVars, storeVars, now, crawlVars, stdVars, extractVars>>

ApplyMatchesKeywords ==
    /\ m_in.fn = "matches_keywords"
    /\ IsNull(m_out)
    /\ m_out' = Some(matches_keywords(m_in.extraction, m_in.keywords))
    /\ UNCHANGED <<m_in, proVars, storeVars, now, crawlVars, stdVars, extractVars>>

\* The texts of the extractions and the keywords the rules are applied to.
TitleTexts == {<<"N", "e", "w">>}
SummaryStrings ==
    {<<"d", "u", "t", "y">>,
     <<"t", "h", "e", " ", "p", "h", "a", "r", "m", "a", " ", "s", "e", "c", "t", "o", "r">>}
CompanyNames ==
    {<<"A", "c", "m", "e">>, <<"B", "o", "l", "t">>, <<"N", "e", "s", "t", "l", "é">>,
     <<"U+0253", "a", "l", "a">>}
KeywordStrings ==
    {<<"P", "h", "a", "r", "m", "a">>, <<"N", "E", "W">>, <<"z", "i", "n", "c">>,
     <<"n", "e", "w", " ", "d", "u", "t", "y">>, <<"e", " ", "b">>,
     <<"N", "E", "S", "T", "L", "É">>, <<"Ɓ", "A", "L", "A">>}
Nullable(S) == {Null} \cup {Some(x) : x \in S}

MatchesKeywordsInputs ==
    [fn : {"matches_keywords"},
     extraction : [title : Nullable(TitleTexts), summary : Nullable(SummaryStrings),
                   companies_mentioned : SeqsUpTo(CompanyNames, 2)],
     keywords : SeqsUpTo(KeywordStrings, MaxKeywords)]
ApplyFilter ==
    /\ m_in.fn = "filter_extractions_for_subscription"
    /\ IsNull(m_out)
    /\ m_out' = Some(filter_extractions_for_subscription(m_in.extractions,
                                                          m_in.subscription))
    /\ UNCHANGED <<m_in, proVars, storeVars, now, crawlVars, stdVars, extractVars>>

FilterInputs ==
    [fn : {"filter_extractions_for_subscription"},
     extractions : SeqsUpTo(Range(Extractions), MaxExtractions),
     subscription : SubscriptionRows]
MatchesThresholdInputs ==
    [fn : {"matches_threshold"}, tiers : SeqsUpTo(Tiers, MaxTiers),
     threshold : Thresholds]
MatchesSectorsInputs ==
    [fn : {"matches_sectors"}, extraction_sectors : SeqsUpTo(SectorTags, MaxSectors),
     sub_sectors : SeqsUpTo(SectorTags, MaxSectors)]

\* bool(x) of a str | None or list | None value: None and the empty value
\* are falsy.
truthy(x) == ~IsNull(x) /\ x[1] # <<>>

\* "regulatory policy"
FALLBACK_QUERY ==
    <<"r", "e", "g", "u", "l", "a", "t", "o", "r", "y", " ",
      "p", "o", "l", "i", "c", "y">>

\* build_search_query(subscription) of scripts/sync_pro_digests.py.  A field
\* is Null when the dict lacks the key or holds None (dict.get gives None for
\* both).
build_search_query(subscription) ==
    LET parts0 == IF truthy(subscription.company_type)
                  THEN <<subscription.company_type[1]>> ELSE <<>>
        keywords == IF truthy(subscription.keywords)
                    THEN subscription.keywords[1] ELSE <<>>
        parts == IF keywords # <<>> THEN parts0 \o keywords ELSE parts0
    IN IF parts = <<>> THEN FALLBACK_QUERY ELSE join(<<" ">>, parts)

\* Mutant: no fallback, the empty parts are joined.
server_build_search_query_without_fallback(company_type, keywords) ==
    join(<<" ">>, (IF truthy(company_type) THEN <<company_type[1]>> ELSE <<>>)
                     \o (IF truthy(keywords) THEN keywords[1] ELSE <<>>))

\* build_search_query(company_type, keywords) of server/app.py.
server_build_search_query(company_type, keywords) ==
    LET parts0 == IF truthy(company_type) THEN <<company_type[1]>> ELSE <<>>
        parts == IF truthy(keywords) THEN parts0 \o keywords[1] ELSE parts0
    IN IF parts # <<>> THEN join(<<" ">>, parts) ELSE FALLBACK_QUERY

\* Both functions on one subscription row.
ApplyBuildSearchQuery ==
    /\ m_in.fn = "build_search_query"
    /\ IsNull(m_out)
    /\ m_out' = Some([script |-> build_search_query(m_in.subscription),
                      server |-> server_build_search_query(
                                    m_in.subscription.company_type,
                                    m_in.subscription.keywords)])
    /\ UNCHANGED <<m_in, proVars, storeVars, now, crawlVars, stdVars, extractVars>>

\* company_type and keywords of a subscriptions_pro row: NULL, empty or set;
\* a keyword may be the empty string.
CompanyTypes == {<<>>, <<"b", "a", "n", "k">>, <<"a", "i", "r", " ", "c", "a", "r", "g", "o">>}
BuildQueryInputs ==
    [fn : {"build_search_query"},
     subscription : [company_type : Nullable(CompanyTypes),
                     keywords : Nullable(SeqsUpTo(KeywordStrings \cup {<<>>},
                                                  MaxKeywords))]]

\* The for loop of crawl_date_range over one page's resultSet.
ApplyParsePage ==
    /\ m_in.fn = "parse_page"
    /\ IsNull(m_out)
    /\ m_out' = Some(parse_page(m_in.results, m_in.query_date))
    /\ UNCHANGED <<m_in, proVars, storeVars, now, crawlVars, stdVars, extractVars>>

\* Raw records with each identity and file key absent, empty or set.
ParseRecords ==
    [packageid : {Null, Some("PKG-A")},
     granuleid : {Null, Some(""), Some("GR-1")},
     pdffile : {Null, Some("a.pdf")},
     htmlfile : {Null, Some(""), Some("a.htm")},
     title : {Some(Some("title-1")), Some(Null)}, collectionCode : {Some("FR")},
     teaser : {Null}, line1 : {"line1"}, line2 : {"line2"}]
ParsePageInputs ==
    [fn : {"parse_page"}, results : SeqsUpTo(ParseRecords, MaxParsed),
     query_date : Dates]

\* insert_extractions_pro on one subscription and period.
ApplyInsertExtractionsPro ==
    /\ m_in.fn = "insert_extractions_pro"
    /\ IsNull(m_out)
    /\ m_out' = Some(insert_extractions_pro(m_in.tbl, m_in.subscription_id,
                                            m_in.document_ids, m_in.period_date,
                                            m_in.dry_run, m_in.failed))
    /\ UNCHANGED <<m_in, proVars, storeVars, now, crawlVars, stdVars, extractVars>>

\* The rows a triple may have before the call: none, or one row in state
\* Candidate, Summarized or Sent.
RowStates ==
    {<<>>, <<NewRow>>, <<[summary |-> Some("summary"), sent_at |-> Null]>>,
     <<[summary |-> Some("summary"), sent_at |-> Some(1)]>>}
InsertInputs ==
    [fn : {"insert_extractions_pro"},
     tbl : [{1} \X SelDocs \X {1} -> RowStates],
     subscription_id : {1}, period_date : {1},
     document_ids : SeqsUpTo(SelDocs, MaxIds),
     dry_run : BOOLEAN,
     failed : SUBSET (1..MaxIds)]

\* POST /webhooks/pro-onboard (server/app.py).  A request: the server's
\* WEBHOOK_SECRET ("" when unset), the x-webhook-secret header (Null when
\* absent) and the body.  body is Null when it is not a JSON object; a field
\* of the body is Null when it is missing or not of the type its model
\* declares.  The fields of record are "missing", "int", "str", or "text" for
\* an id that is no integer.
WebhookRequests ==
    [fn : {"webhook_pro_onboard"},
     WEBHOOK_SECRET : {"", "s3cret"},
     x_webhook_secret : {Null, Some(""), Some("s3cret"), Some("other")},
     body : {Null} \cup
            [type : {Null, Some("INSERT"), Some("UPDATE")},
             table : {Null, Some("subscriptions_pro"), Some("subscriptions")},
             record : {Null} \cup {Some(r) : r \in [id : {"missing", "int", "text"},
                                                     email : {"missing", "str"}]}]]

\* WebhookPayload(**body) raises: type, table and record are required.
invalid_payload(body) ==
    \/ IsNull(body)
    \/ IsNull(body.type) \/ IsNull(body.table) \/ IsNull(body.record)

\* SubscriptionRecord(**payload.record) raises: id: int and email: str are
\* required.
invalid_record(record) == record.id # "int" \/ record.email # "str"

\* Mutant: the secret is not looked at.
webhook_pro_onboard_open(WEBHOOK_SECRET, auth_header) == FALSE

\* if WEBHOOK_SECRET: ... if auth_header != WEBHOOK_SECRET: raise 401
invalid_webhook_secret(WEBHOOK_SECRET, auth_header) ==
    WEBHOOK_SECRET # "" /\ auth_header # WEBHOOK_SECRET

\* The response and the background tasks the handler added.
webhook_pro_onboard(request) ==
    IF invalid_webhook_secret(request.WEBHOOK_SECRET, Get(request.x_webhook_secret, ""))
    THEN [status |-> 401, detail |-> "Invalid webhook secret", tasks |-> <<>>]
    ELSE IF invalid_payload(request.body)
    THEN [status |-> 400, detail |-> "Invalid payload", tasks |-> <<>>]
    ELSE IF request.body.type[1] # "INSERT" \/ request.body.table[1] # "subscriptions_pro"
    THEN [status |-> 200, detail |-> "Ignored", tasks |-> <<>>]
    ELSE IF invalid_record(request.body.record[1])
    THEN [status |-> 400, detail |-> "Invalid subscription record", tasks |-> <<>>]
    ELSE [status |-> 200, detail |-> "Processing subscription",
          tasks |-> <<request.body.record[1]>>]

ApplyWebhookProOnboard ==
    /\ m_in.fn = "webhook_pro_onboard"
    /\ IsNull(m_out)
    /\ m_out' = Some(webhook_pro_onboard(m_in))
    /\ UNCHANGED <<m_in, proVars, storeVars, now, crawlVars, stdVars, extractVars>>

InitMatch ==
    /\ m_in \in MatchesThresholdInputs \cup MatchesSectorsInputs
                  \cup MatchesKeywordsInputs \cup FilterInputs
                  \cup BuildQueryInputs \cup InsertInputs \cup ParsePageInputs
                  \cup WebhookRequests
    /\ m_out = Null
    /\ now = 1
    /\ ProOff /\ StoreOff
    /\ crawl = CrawlOff /\ documents = <<>> /\ next_id = 1 /\ ingest = <<>>
    /\ subscriptions = <<>> /\ std = StdOff /\ std_delivered = <<>>
    /\ ExtractOff

NextMatch ==
    \/ ApplyMatchesThreshold
    \/ ApplyMatchesSectors
    \/ ApplyMatchesKeywords
    \/ ApplyFilter
    \/ ApplyBuildSearchQuery
    \/ ApplyInsertExtractionsPro
    \/ ApplyParsePage
    \/ ApplyWebhookProOnboard

SpecMatch == InitMatch /\ [][NextMatch]_vars

(***************************************************************************)
(* EXTRACTION JOB (scripts/extract.py) over the store's documents and      *)
(* extractions tables.  Runs follow one another, as the daily job's do.    *)
(***************************************************************************)
BATCH_SIZE == 50

XDocs == 1..MaxXDocs
\* --limit: absent, or an int; 0 is falsy and means no limit.
Limits == {Null} \cup {Some(l) : l \in 0..MaxLimit}
\* The rows the documents query may return: html_url IS NOT NULL, the
\* publish_date filter when date is given, and LIMIT without ORDER BY, which
\* leaves the choice of the rows to the store.
\* Each row holds the columns selected: id and html_url.
documents_query(tbl, limit, date) ==
    LET rows == {d \in DOMAIN tbl :
                    /\ tbl[d].html_url # Null
                    /\ (IsNull(date) \/ tbl[d].publish_date = date[1])}
    IN {[k \in DOMAIN q |-> [id |-> q[k], html_url |-> tbl[q[k]].html_url[1]]] :
           q \in limited(rows, limit)}

existing_ids(ext_tbl, doc_ids) ==
    {ext_tbl[i].document_id : i \in DOMAIN ext_tbl} \cap doc_ids

\* Mutant: the rows already extracted are not filtered out.
fetch_all_documents(docs, ext_tbl) == docs

\* fetch_unprocessed_documents, after the documents query returned docs.
fetch_unprocessed_documents(docs, ext_tbl) ==
    LET doc_ids == {docs[k].id : k \in DOMAIN docs}
    IN SelectSeq(docs, LAMBDA d : d.id \notin existing_ids(ext_tbl, doc_ids))

\* One row of .upsert(extractions, on_conflict="document_id"): the row of the
\* same document_id is updated, else the row is inserted.
upsert_extraction(tbl, row) ==
    IF \E i \in DOMAIN tbl : tbl[i].document_id = row.document_id
    THEN [i \in DOMAIN tbl |->
             IF tbl[i].document_id = row.document_id THEN row ELSE tbl[i]]
    ELSE Append(tbl, row)

RECURSIVE save_extractions(_, _)
save_extractions(tbl, extractions) ==
    IF extractions = <<>> THEN tbl
    ELSE save_extractions(upsert_extraction(tbl, Head(extractions)), Tail(extractions))

\* run numbers the runs and stands for extracted_at.  History of the runs so
\* far: limits, the --limit values they were given; clean, no batch failed
\* and every document of a batch got its result.
ExtractIdle ==
    [pc |-> "idle", limit |-> Null, date |-> Null, docs |-> <<>>, i |-> 0,
     total_extracted |-> 0, run |-> 0, returned |-> Null,
     limits |-> {}, clean |-> TRUE]

NotExtract == UNCHANGED <<proVars, now, crawlVars, stdVars, matchVars>>

\* extract_documents(limit, date) up to the batch loop.
ExtractStart(limit, date) ==
    /\ extract.pc \in {"idle", "done", "raised"}
    /\ extract.run < MaxExtractRuns
    /\ LET begun == [ExtractIdle EXCEPT !.limit = limit, !.date = date,
                                        !.run = extract.run + 1,
                                        !.limits = extract.limits \cup {limit},
                                        !.clean = extract.clean]
       IN \/ \* a key is not set (ValueError) or a query raises
             extract' = [begun EXCEPT !.pc = "raised", !.clean = FALSE]
          \/ \E rows \in documents_query(store_documents, limit, date) :
                LET docs == fetch_unprocessed_documents(rows, sb_extractions)
                    job == [begun EXCEPT !.docs = docs]
                IN extract' = IF docs = <<>>
                              THEN [job EXCEPT !.pc = "done", !.returned = Some(0)]
                              ELSE [job EXCEPT !.pc = "batch"]
    /\ UNCHANGED <<storeVars, sb_extractions>>
    /\ NotExtract

\* After a batch: the next one, or return total_extracted.
next_batch(job) ==
    IF job.i + BATCH_SIZE >= Len(job.docs)
    THEN [job EXCEPT !.i = @ + BATCH_SIZE, !.pc = "done",
                     !.returned = Some(job.total_extracted)]
    ELSE [job EXCEPT !.i = @ + BATCH_SIZE]

\* One pass of the for loop over the batches.
ExtractBatch ==
    /\ extract.pc = "batch"
    /\ LET batch == SubSeq(extract.docs, extract.i + 1,
                           MinOf(extract.i + BATCH_SIZE, Len(extract.docs)))
           \* {doc["html_url"]: doc for doc in batch}: of two documents with
           \* one URL the later one stays
           url_to_doc ==
               [u \in {batch[k].html_url : k \in DOMAIN batch} |->
                   batch[CHOOSE k \in DOMAIN batch :
                            /\ batch[k].html_url = u
                            /\ \A j \in DOMAIN batch :
                                   batch[j].html_url = u => j <= k].id]
       IN \/ \* batch_scrape raises, the status is not "completed", or the
             \* upsert raises: logged, next batch
             /\ extract' = next_batch([extract EXCEPT !.clean = FALSE])
             /\ UNCHANGED sb_extractions
          \/ \* completed: the results whose URL is one of the batch's
             \E urls \in SUBSET DOMAIN url_to_doc :
             \E extractions \in Orders({[document_id |-> url_to_doc[u],
                                         extracted_at |-> extract.run] : u \in urls}) :
                   /\ sb_extractions' = save_extractions(sb_extractions, extractions)
                   /\ extract' = next_batch(
                         [extract EXCEPT !.total_extracted = @ + Len(extractions),
                                         !.clean = @ /\ urls = DOMAIN url_to_doc])
    /\ UNCHANGED storeVars
    /\ NotExtract

InitExtract ==
    /\ store_documents \in
          {t \in [XDocs -> {StoredDocument(d, has_url, Some("title"), date) :
                               d \in XDocs, has_url \in BOOLEAN, date \in Dates}] :
              \A d \in XDocs : t[d].granule_id = Some(GranuleIds[d])}
    /\ store_next_id = MaxXDocs + 1
    /\ sb_extractions = <<>>
    /\ extract = ExtractIdle
    /\ now = 1
    /\ ProOff
    /\ crawl = CrawlIdle /\ documents = <<>> /\ next_id = 1 /\ ingest = <<>>
    /\ subscriptions = <<>> /\ std = StdOff /\ std_delivered = <<>>
    /\ m_in = <<>> /\ m_out = <<>>

\* The extraction runs, and sync_to_supabase in a process of its own writing
\* the documents table before, between and during them.
NextExtract ==
    \/ \E limit \in Limits, date \in {Null} \cup {Some(d) : d \in Dates} :
          ExtractStart(limit, date)
    \/ ExtractBatch
    \/ \E docs \in SyncDocs : SyncToSupabase(docs, 100, FALSE)
    \/ SyncBatch

SpecExtract == InitExtract /\ [][NextExtract]_vars

(***************************************************************************)
(* CLAIMS about the pro pipeline                                           *)
(***************************************************************************)
Sent(tbl, id) == ~IsNull(RowOf(tbl, id).sent_at)

\* C1 (as claimed): over any sequence of select, summarize and send runs of
\* one period, also when marking Sent fails after the transport accepted the
\* message, no (subscription, document, period) tuple is in more than one
\* accepted message.  Checked under SpecSeq, where the batch jobs run one
\* after the other.
C1_TupleInAtMostOneMessage == \A k \in Keys : delivered[k] <= 1

\* C2 (as claimed): a mark of a tuple whose sent_at is already set retains
\* the first value: no step changes a non-null sent_at.
C2_MarkRetainsFirstSentAt ==
    [][\A id \in RowIds(extractions_pro) :
          Sent(extractions_pro, id)
              => RowOf(extractions_pro', id).sent_at = RowOf(extractions_pro, id).sent_at]_vars

\* C3: however many times a triple is registered, by the batch selector or by
\* the onboarding pipeline, the table holds exactly one row for it (and none
\* for a triple never registered).
C3_OneRowPerRegisteredTriple ==
    \A k \in Keys :
        Len(extractions_pro[k]) = (IF registered[k] >= 1 THEN 1 ELSE 0)

\* C3 witness: a triple registered twice holds one row.
C3_Witness ==
    \E k \in Keys : registered[k] >= 2 /\ Len(extractions_pro[k]) = 1

\* C7: Sent is terminal: a row whose sent_at is set keeps a set sent_at in
\* every later step and is never again among the unsent rows.
C7_SentIsTerminal ==
    [][\A id \in RowIds(extractions_pro) :
          Sent(extractions_pro, id)
              => /\ id \in RowIds(extractions_pro')
                 /\ Sent(extractions_pro', id)
                 /\ id \notin fetch_unsent_extractions_for_subscription(
                                  extractions_pro', id[1][1], Null)]_vars

\* C7 witness: an onboarding run sent a tuple, and the selector run after it on
\* the same process registered the triple again; the row is still Sent.
C7_Witness ==
    /\ procs[1].job = "sync" /\ procs[1].pc = "done"
    /\ \A p \in Procs \ {1} : procs[p] = IdleProc
    /\ \E k \in Keys :
          /\ registered[k] >= 2
          /\ Len(extractions_pro[k]) = 1
          /\ Sent(extractions_pro, <<k, 1>>)

\* C8 (as claimed): a document delivered to a subscriber in one period is not
\* delivered to that subscriber in another period.  Checked under SpecSeq.
C8_NoDeliveryInTwoPeriods ==
    \A s \in Subs, d \in Docs :
        Cardinality({t \in Periods : delivered[<<s, d, t>>] >= 1}) <= 1

(***************************************************************************)
(* CLAIMS about the crawler and the catalog                                *)
(***************************************************************************)
\* The identity of a document or a stored row: (package_id, granule_id), which
\* is package_id alone when granule_id is absent.
Identity(d) == <<d.package_id, d.granule_id>>
Identities(ds) == {Identity(ds[i]) : i \in DOMAIN ds}
NoIdentityTwice(tbl) ==
    \A i, j \in DOMAIN tbl : Identity(tbl[i]) = Identity(tbl[j]) => i = j
Attributes(d) ==
    <<d.package_id, d.granule_id, d.title, d.doc_class, d.publish_date, d.metadata,
      d.pdf_url, d.html_url, d.details_url, d.summary>>
BothSaved ==
    /\ Len(ingest) = 2 /\ crawl.pc = "idle"
    /\ ingest[1].saved /\ ingest[2].saved
    /\ ingest[1].start_date = ingest[2].start_date
    /\ ingest[1].end_date = ingest[2].end_date
    /\ ingest[1].docs # <<>>
    /\ Identities(ingest[1].docs) = Identities(ingest[2].docs)

\* C4: after ingestion has run twice for the same date range, the source
\* returning the same identities both times, the catalog holds no identity
\* twice and every row carries the second run's crawled_at and the attributes
\* of a document of the second run.
C4_ReingestionLeavesOneRowPerIdentity ==
    BothSaved =>
        /\ NoIdentityTwice(documents)
        /\ \A i \in DOMAIN documents :
              /\ documents[i].crawled_at = ingest[2].crawled_at[1]
              /\ \E k \in DOMAIN ingest[2].docs :
                    Attributes(documents[i]) = Attributes(ingest[2].docs[k])

\* C5: after any sequence of save_documents calls, two stored rows never
\* share a package_id while both have no granule_id (and, in general, no two
\* rows share an identity).
C5_AtMostOneRowPerIdentity ==
    /\ NoIdentityTwice(documents)
    /\ \A i, j \in DOMAIN documents :
          (/\ documents[i].package_id = documents[j].package_id
           /\ IsNull(documents[i].granule_id) /\ IsNull(documents[j].granule_id))
          => i = j

CeilDiv(a, b) == (a + b - 1) \div b
RECURSIVE Flatten(_)
Flatten(ss) == IF ss = <<>> THEN <<>> ELSE Head(ss) \o Flatten(Tail(ss))
CleanCrawlEnded ==
    /\ crawl.pc = "save"
    /\ ~crawl.http_error
    /\ ~IsNull(crawl.total_count) /\ crawl.total_count[1] >= 1
    /\ \A i \in DOMAIN crawl.pages : crawl.pages[i] # <<>>

\* C6: when the first response reports a total count T >= 1, every requested
\* page is non-empty and no request fails, crawl_date_range ends after exactly
\* ceil(T / 100) requests, their offsets being 0, 1, ..., ceil(T / 100) - 1 in
\* that order, and has yielded every record of every one of those pages.
C6_CeilTOver100Requests ==
    CleanCrawlEnded =>
        LET n == CeilDiv(crawl.total_count[1], 100) IN
        /\ crawl.requests = [i \in 1..n |-> i - 1]
        /\ Len(crawl.pages) = n
        /\ crawl.docs = parse_page(Flatten(crawl.pages), crawl.query_date[1])

C6_Witness ==
    /\ CleanCrawlEnded
    /\ crawl.total_count[1] = 250
    /\ crawl.requests = <<0, 1, 2>>
    /\ Len(crawl.docs) = 3
    /\ crawl.docs[3] = parse_document(crawl.pages[3][1], crawl.query_date[1])

(***************************************************************************)
(* CLAIMS about the standard digest and the subscription rules             *)
(***************************************************************************)
\* C9: however many times send_digests runs for a date, no extraction is in
\* more than one message accepted for the same subscriber.
C9_NoRepeatedStandardDelivery ==
    \A k \in DOMAIN std_delivered : std_delivered[k] <= 1

\* The ordinal of a relevance tier as the specification gives it.
Ordinal(tier) ==
    CASE tier = "low" -> 1
      [] tier = "medium" -> 2
      [] tier = "high" -> 3
      [] OTHER -> 0
ThresholdOrdinal(threshold) ==
    IF threshold \in {Some("low"), Some("medium"), Some("high")}
    THEN Ordinal(threshold[1]) ELSE Ordinal("medium")
MatchesThresholdApplied == m_in # <<>> /\ m_in.fn = "matches_threshold" /\ ~IsNull(m_out)

\* C10: matches_threshold(tiers, threshold) is true exactly when some tier has
\* an ordinal (low 1, medium 2, high 3, anything else 0) at least the
\* threshold's, an unset or unknown threshold counting as medium; for
\* threshold high, [low, medium] does not match and [low, high] does; an empty
\* tier list never matches.
C10_MatchesThresholdByOrdinal ==
    MatchesThresholdApplied =>
        /\ m_out[1] = (\E i \in DOMAIN m_in.tiers :
                          Ordinal(m_in.tiers[i]) >= ThresholdOrdinal(m_in.threshold))
        /\ (m_in.threshold = Some("high") /\ m_in.tiers = <<"low", "medium">>)
              => m_out[1] = FALSE
        /\ (m_in.threshold = Some("high") /\ m_in.tiers = <<"low", "high">>)
              => m_out[1] = TRUE
        /\ m_in.tiers = <<>> => m_out[1] = FALSE

C10_Witness ==
    /\ MatchesThresholdApplied
    /\ m_in.threshold = Some("high")
    /\ m_in.tiers = <<"low", "high">>
    /\ m_out = Some(TRUE)

MatchesSectorsApplied == m_in # <<>> /\ m_in.fn = "matches_sectors" /\ ~IsNull(m_out)

\* C11: matches_sectors is true for every extraction when the subscription's
\* sector set is empty, and otherwise true exactly when the extraction's and
\* the subscription's sectors have a sector in common.
C11_SectorsEmptyOrOverlap ==
    MatchesSectorsApplied =>
        LET ext == {m_in.extraction_sectors[i] : i \in DOMAIN m_in.extraction_sectors}
            sub == {m_in.sub_sectors[i] : i \in DOMAIN m_in.sub_sectors}
        IN /\ sub = {} => m_out[1] = TRUE
           /\ sub # {} => (m_out[1] = (\E x \in ext : x \in sub))

C11_Witness ==
    /\ MatchesSectorsApplied
    /\ m_in.sub_sectors = <<>>
    /\ m_in.extraction_sectors = <<"energy">>
    /\ m_out = Some(TRUE)

MatchesKeywordsApplied == m_in # <<>> /\ m_in.fn = "matches_keywords" /\ ~IsNull(m_out)
\* The texts of an extraction a keyword is looked for in.
FieldTexts(extraction) ==
    {f[1] : f \in {extraction.title, extraction.summary} \ {Null}}
        \cup {extraction.companies_mentioned[i] : i \in DOMAIN extraction.companies_mentioned}
\* kw occurs in str, letter case ignored.
OccursIgnoringCase(kw, str) ==
    \E i \in 0..(Len(str) - Len(kw)) :
        \A j \in 1..Len(kw) : lower(<<str[i + j]>>) = lower(<<kw[j]>>)

\* C12: matches_keywords is true for every extraction when the keyword list is
\* empty, and otherwise true exactly when some keyword occurs, letter case
\* ignored, as a substring of the extraction's title, of its summary or of one
\* of its company names.
C12_KeywordInSomeField ==
    MatchesKeywordsApplied =>
        /\ m_in.keywords = <<>> => m_out[1] = TRUE
        /\ m_in.keywords # <<>> =>
              (m_out[1] = (\E k \in DOMAIN m_in.keywords :
                              \E str \in FieldTexts(m_in.extraction) :
                                  OccursIgnoringCase(m_in.keywords[k], str)))

FilterApplied ==
    m_in # <<>> /\ m_in.fn = "filter_extractions_for_subscription" /\ ~IsNull(m_out)
AllRulesHold(ext, subscription) ==
    /\ matches_threshold(ext.relevance, subscription.relevance_threshold)
    /\ matches_sectors(ext.sectors, subscription.sectors)
    /\ matches_keywords(ext, subscription.keywords)
\* r is s without the elements at some positions, the order kept.
RECURSIVE KeptInOrder(_, _, _)
KeptInOrder(r, s, subscription) ==
    IF s = <<>> THEN r = <<>>
    ELSE IF AllRulesHold(Head(s), subscription)
         THEN r # <<>> /\ Head(r) = Head(s) /\ KeptInOrder(Tail(r), Tail(s), subscription)
         ELSE KeptInOrder(r, Tail(s), subscription)
TariffSubscription ==
    [is_verified |-> TRUE, unsubscribed_at |-> Null, relevance_threshold |-> Some("medium"),
     sectors |-> <<>>, keywords |-> <<<<"t", "a", "r", "i", "f", "f">>>>]

\* C13: filter_extractions_for_subscription returns, in input order, exactly
\* the extractions for which the threshold, the sector and the keyword rule
\* all hold; for the three extractions of which one holds "Tariff" at
\* relevance high and a subscription with threshold medium, no sectors and
\* keyword "tariff" it returns that one extraction, a digest of length 1.
C13_FilterKeepsExactlyTheMatches ==
    FilterApplied =>
        /\ KeptInOrder(m_out[1], m_in.extractions, m_in.subscription)
        /\ (m_in.extractions = Extractions /\ m_in.subscription = TariffSubscription)
              => (Len(m_out[1]) = 1 /\ m_out[1][1].id = 1)

C13_Witness ==
    /\ FilterApplied
    /\ m_in.extractions = Extractions
    /\ m_in.subscription = TariffSubscription
    /\ m_out = Some(<<Extractions[1]>>)

(***************************************************************************)
(* CLAIMS about failures, isolation and modes of the jobs                  *)
(***************************************************************************)
LogSubs(pr) == [i \in DOMAIN pr.log |-> pr.log[i].sub]
LogCount(pr, outcome) == Cardinality({i \in DOMAIN pr.log : pr.log[i].outcome = outcome})
\* The job ended before its loop: a client could not be made or the first
\* query raised.
StartRaised(pr) == pr.pc = "raised" /\ pr.log = <<>>

\* C14: in sync_pro_digests a failed similarity search for one subscriber
\* stops nothing: the run never ends on a failed search, and unless another
\* exception ends it the subscribers are processed one by one in the order
\* fetched, before and after the failure, until none is left; every document
\* whose upsert returned has its candidate registered; the error count is
\* the number of subscribers whose search failed.
C14_SearchFailureIsolated ==
    \A p \in Procs :
        LET pr == procs[p] IN
        pr.job = "sync" =>
            /\ pr.pc = "raised" =>
                  (pr.log = <<>> \/ pr.log[Len(pr.log)].outcome = "raised")
            /\ pr.pc # "raised" =>
                  LogSubs(pr) \o pr.queue
                      \in Orders(fetch_active_pro_subscriptions(subscriptions_pro))
            /\ pr.pc = "done" => pr.queue = <<>>
            /\ pr.stats.errors = LogCount(pr, "search_failed")
            /\ \A i \in DOMAIN pr.log :
                  pr.log[i].outcome = "synced" =>
                      \A d \in pr.log[i].items :
                          Len(extractions_pro[<<pr.log[i].sub, d, pr.period[1]>>]) >= 1

C14_Witness ==
    \E p \in Procs :
        LET pr == procs[p] IN
        /\ pr.job = "sync" /\ pr.pc = "done" /\ Len(pr.log) = 2
        /\ pr.log[1].outcome = "search_failed"
        /\ pr.log[2].outcome = "synced" /\ pr.log[2].items # {}
        /\ pr.stats.errors = 1 /\ pr.stats.subscriptions = 1

\* C15: in the send stage an exception raised while one subscriber is
\* processed does not keep the remaining subscribers from being processed,
\* and the run still returns its counts: a send run never ends by an
\* exception, and when it is over no fetched subscriber is left unprocessed.
C15_SendFailureIsolated ==
    \A p \in Procs :
        LET pr == procs[p] IN
        (pr.job = "send" /\ ~StartRaised(pr)) =>
            /\ pr.pc # "raised"
            /\ Free(p) => /\ pr.queue = <<>>
                          /\ LogSubs(pr) \in
                                Orders(fetch_active_pro_subscriptions(subscriptions_pro))
                          /\ LogCount(pr, "raised") = 0

Stored(doc) == \E i \in DOMAIN documents : Identity(documents[i]) = Identity(doc)

\* C16: when the request for page k fails (a non-2xx status or a timeout),
\* crawl_date_range issues no further request, and the documents yielded from
\* the pages before it are its output and are stored by crawl_day /
\* crawl_range: every document a finished call had yielded is in the catalog.
C16_FailedPageKeepsEarlierDocuments ==
    /\ crawl.pc \in {"save", "raised"} =>
          Len(crawl.requests) \in {Len(crawl.pages), Len(crawl.pages) + 1}
    /\ \A i \in DOMAIN ingest :
          \A k \in DOMAIN ingest[i].docs : Stored(ingest[i].docs[k])

\* The outcomes in which the mail transport was called once with a message
\* holding the logged items.
TransportCalled == {"sent", "send_raised"}

\* C17: in one send run (not a dry run) every active subscriber with a
\* non-empty matched set causes exactly one call to the mail transport, whose
\* message holds every matched item, and every active subscriber with an
\* empty matched set causes no call and is counted as skipped.
C17_OneMessagePerMatchedSubscriber ==
    \A p \in Procs :
        LET pr == procs[p] IN
        (pr.job = "send" /\ Free(p) /\ ~pr.dry_run /\ ~StartRaised(pr)) =>
            /\ LogSubs(pr) \in Orders(fetch_active_pro_subscriptions(subscriptions_pro))
            /\ \A i \in DOMAIN pr.log :
                  \/ pr.log[i].items = {} /\ pr.log[i].outcome = "skipped"
                  \/ pr.log[i].items # {} /\ pr.log[i].outcome \in TransportCalled
            /\ pr.stats.skipped = LogCount(pr, "skipped")

\* C18: a missing required credential aborts a batch job before any per-item
\* work: a send run (not a dry run) whose environment holds no RESEND_API_KEY
\* gets to no subscriber, so it counts none as failed, skipped or sent.
C18_MissingCredentialAbortsBeforeWork ==
    \A p \in Procs :
        LET pr == procs[p] IN
        (pr.job = "send" /\ ~pr.dry_run /\ ~pr.resend_api_key) =>
            pr.stats = ZeroStats

Active(s) == subscriptions_pro[s].is_verified /\ IsNull(subscriptions_pro[s].unsubscribed_at)

\* C19: no message is handed to the mail transport for a subscription that is
\* not active (not verified, or unsubscribed), in any stage, the onboarding
\* pipeline of the webhook included.
C19_NoMessageToInactiveSubscription ==
    \A k \in Keys : delivered[k] > 0 => Active(k[1])

\* C20: with dry_run set the select, summarize and send stages change no
\* persisted state and deliver nothing: a step of a dry-run job inserts no
\* candidate row, writes no summary, sets no sent_at and hands no message to
\* the mail transport.
C20_DryRunChangesNothing ==
    [][\A p \in Procs :
          (procs'[p] # procs[p] /\ procs'[p].dry_run) =>
              (extractions_pro' = extractions_pro /\ delivered' = delivered)]_vars

C20_Witness ==
    \E p \in Procs :
        LET pr == procs[p] IN
        /\ pr.job = "send" /\ pr.dry_run /\ pr.pc = "done"
        /\ \E i \in DOMAIN pr.log :
              /\ pr.log[i].outcome = "dry_run"
              /\ pr.log[i].items # {}
              /\ \A id \in pr.log[i].items :
                    /\ IsNull(RowOf(extractions_pro, id).sent_at)
                    /\ delivered[id[1]] = 0

(***************************************************************************)
(* C21: for each pro subscription and period, after any number of selector *)
(* runs and whatever list the search returns, the subscription has at most *)
(* top_k candidate rows for the period (every run here has top_k <=        *)
(* MaxTopK).                                                               *)
(***************************************************************************)
CandidateRows(s, t) ==
    {k \in DOMAIN extractions_pro :
        k[1] = s /\ k[3] = t /\ Len(extractions_pro[k]) > 0}

C21_AtMostTopKCandidates ==
    \A s \in Subs, t \in Periods : Cardinality(CandidateRows(s, t)) <= MaxTopK

(***************************************************************************)
(* C22: a tuple's sent_at is set only after the mail transport accepted a  *)
(* message containing that tuple in the same run: the step that sets it is *)
(* the marking step of a job that is not a dry run, whose message held the *)
(* row and was accepted (for send_pro_digests, logged as sent in this      *)
(* run); never after a failed send_email.                                  *)
(***************************************************************************)
BecomesSent(id) ==
    /\ IsNull(RowOf(extractions_pro, id).sent_at)
    /\ ~IsNull(RowOf(extractions_pro', id).sent_at)

AcceptedInRunOf(p, id) ==
    /\ procs[p].job \in {"send", "onboard"}
    /\ procs[p].pc = "update"
    /\ ~procs[p].dry_run
    /\ id \in procs[p].exts
    /\ delivered[id[1]] > 0
    /\ procs[p].job = "send" =>
          \E i \in DOMAIN procs[p].log :
              procs[p].log[i].outcome = "sent" /\ id \in procs[p].log[i].items

C22_SentAtOnlyAfterAcceptedMessage ==
    [][\A id \in RowIds(extractions_pro) :
          BecomesSent(id) =>
              \E p \in Procs : procs'[p] # procs[p] /\ AcceptedInRunOf(p, id)]_vars

\* A row marked Sent, its tuple in an accepted message.
C22_Witness ==
    \E id \in RowIds(extractions_pro) :
        ~IsNull(RowOf(extractions_pro, id).sent_at) /\ delivered[id[1]] > 0

(***************************************************************************)
(* C23: the message send_pro_digests builds for subscriber X and period P  *)
(* contains exactly the tuples of X and P that have a non-null summary and *)
(* a null sent_at when the sender reads them: no Candidate row, no Sent    *)
(* row, no row of another subscriber or period.                            *)
(***************************************************************************)
Summarized(id) ==
    /\ RowOf(extractions_pro, id).summary # Null
    /\ RowOf(extractions_pro, id).sent_at = Null

BuildsMessage(p) ==
    /\ procs[p].job = "send" /\ procs[p].pc = "fetch"
    /\ procs'[p].job = "send" /\ procs'[p].pc = "email"

C23_MessageHoldsExactlyTheSummarizedRows ==
    [][\A p \in Procs :
          BuildsMessage(p) =>
              procs'[p].exts =
                  {id \in RowIds(extractions_pro) :
                      /\ Summarized(id)
                      /\ id[1][1] = Head(procs[p].queue)
                      /\ id[1][3] = procs[p].period[1]}]_vars

\* A message under construction while the table also holds rows left out
\* of it: a Sent row of the same subscriber (another period) and a
\* Summarized row of another subscriber.
C23_Witness ==
    \E p \in Procs :
        /\ procs[p].job = "send" /\ procs[p].pc = "email" /\ procs[p].exts # {}
        /\ \E id \in RowIds(extractions_pro) \ procs[p].exts :
              /\ Summarized(id)
              /\ id[1][1] # Head(procs[p].queue)
        /\ \E id \in RowIds(extractions_pro) \ procs[p].exts :
              /\ ~IsNull(RowOf(extractions_pro, id).sent_at)
              /\ id[1][1] = Head(procs[p].queue)

(***************************************************************************)
(* C24: a page that returns zero results ends crawl_date_range at once,    *)
(* with no further request, even when (offset + 1) * page_size is still    *)
(* below the total count: an empty page is the last response and the last  *)
(* request of its crawl.                                                   *)
(***************************************************************************)
C24_EmptyPageEndsCrawl ==
    \A i \in DOMAIN crawl.pages :
        crawl.pages[i] = <<>> =>
            /\ i = Len(crawl.pages)
            /\ i = Len(crawl.requests)
            /\ crawl.pc # "fetch"

\* The second page is empty while the count math asks for a third request.
C24_Witness ==
    /\ crawl.pc = "save"
    /\ Len(crawl.pages) = 2 /\ crawl.pages[1] # <<>> /\ crawl.pages[2] = <<>>
    /\ crawl.requests = <<0, 1>>
    /\ (crawl.requests[2] + 1) * PAGE_SIZE < crawl.total_count[1]

(***************************************************************************)
(* C25: the total count used for termination is the first response's; its *)
(* value T0 is kept whatever counts and non-empty pages later responses    *)
(* report, and crawl_date_range issues at most max(1, ceil(T0/100))        *)
(* requests.                                                               *)
(***************************************************************************)
MaxOf(a, b) == IF a >= b THEN a ELSE b

C25_FirstCountBoundsRequests ==
    [][/\ (crawl.pc = "fetch" /\ ~IsNull(crawl.total_count)) =>
              crawl'.total_count = crawl.total_count
       /\ ~IsNull(crawl'.total_count) =>
              Len(crawl'.requests) <=
                  MaxOf(1, CeilDiv(crawl'.total_count[1], 100))]_vars

\* Later responses reported another count and non-empty pages; the crawl
\* ended with the first count's number of requests.
C25_Witness ==
    /\ crawl.pc = "save" /\ crawl.recount
    /\ crawl.total_count = Some(2 * PAGE_SIZE)
    /\ crawl.requests = <<0, 1>>
    /\ \A i \in DOMAIN crawl.pages : crawl.pages[i] # <<>>

(***************************************************************************)
(* C26: the selector's query is the company type (when present and not     *)
(* empty) followed by the keywords in their list order, joined by single   *)
(* spaces; it is the fixed fallback query when both are absent or empty;   *)
(* the batch script's and the webhook server's build_search_query return   *)
(* the same string for every (company_type, keywords).                     *)
(***************************************************************************)
Present(x) == x # Null /\ x # Some(<<>>)

RECURSIVE SpaceSeparated(_)
SpaceSeparated(words) ==
    IF Len(words) = 0 THEN <<>>
    ELSE IF Len(words) = 1 THEN words[1]
    ELSE SpaceSeparated(SubSeq(words, 1, Len(words) - 1))
             \o <<" ">> \o words[Len(words)]

ExpectedQuery(sub) ==
    IF ~Present(sub.company_type) /\ ~Present(sub.keywords) THEN FALLBACK_QUERY
    ELSE IF ~Present(sub.company_type) THEN SpaceSeparated(sub.keywords[1])
    ELSE IF ~Present(sub.keywords) THEN sub.company_type[1]
    ELSE SpaceSeparated(<<sub.company_type[1]>> \o sub.keywords[1])

BuildSearchQueryApplied == m_in.fn = "build_search_query" /\ m_out # Null

C26_QueryAndEquivalence ==
    BuildSearchQueryApplied =>
        /\ m_out[1].script = ExpectedQuery(m_in.subscription)
        /\ m_out[1].server = m_out[1].script

\* Company type and two keywords: "bank Pharma zinc".
C26_Witness ==
    /\ BuildSearchQueryApplied
    /\ m_in.subscription.company_type = Some(<<"b", "a", "n", "k">>)
    /\ m_in.subscription.keywords =
           Some(<< <<"P", "h", "a", "r", "m", "a">>, <<"z", "i", "n", "c">> >>)
    /\ m_out[1].server =
           <<"b", "a", "n", "k", " ", "P", "h", "a", "r", "m", "a", " ", "z", "i", "n", "c">>

(***************************************************************************)
(* C27, as stated: insert_extractions_pro attempts the upsert for every    *)
(* returned document id in order, a failed upsert does not prevent the     *)
(* attempts for the later ids, and the returned count equals the number of *)
(* ids whose upsert succeeded.                                             *)
(***************************************************************************)
InsertApplied == m_in.fn = "insert_extractions_pro" /\ m_out # Null

Successes(attempted, failed) ==
    Cardinality({i \in DOMAIN attempted : i \notin failed})

C27_EveryIdAttemptedAndCounted ==
    InsertApplied =>
        /\ m_out[1].attempted = m_in.document_ids
        /\ m_out[1].inserted = Successes(m_out[1].attempted, m_in.failed)

(***************************************************************************)
(* C27, amended: outside a dry run, insert_extractions_pro attempts the    *)
(* upsert for every returned document id in order whatever upserts fail,   *)
(* and returns the number of upserts that succeeded; in a dry run it       *)
(* attempts none and returns the number of ids.                            *)
(***************************************************************************)
C27_EveryIdAttemptedOutsideDryRun ==
    InsertApplied =>
        IF m_in.dry_run
        THEN /\ m_out[1].attempted = <<>>
             /\ m_out[1].inserted = Len(m_in.document_ids)
        ELSE /\ m_out[1].attempted = m_in.document_ids
             /\ m_out[1].inserted = Successes(m_in.document_ids, m_in.failed)
             /\ \A i \in DOMAIN m_in.document_ids :
                    i \notin m_in.failed =>
                        Len(m_out[1].tbl[<<1, m_in.document_ids[i], 1>>]) = 1

\* The first of three upserts fails, the later two are made and counted.
C27_Witness ==
    /\ InsertApplied /\ ~m_in.dry_run
    /\ m_in.document_ids = <<1, 2, 2>> /\ m_in.failed = {1}
    /\ m_in.tbl[<<1, 2, 1>>] = <<>>
    /\ m_out[1].attempted = <<1, 2, 2>>
    /\ m_out[1].inserted = 2
    /\ m_out[1].tbl[<<1, 2, 1>>] = <<NewRow>>

(***************************************************************************)
(* C28: re-running the selector (the batch selector or the onboarding      *)
(* task's insert step) for a triple that already has a row is a no-op on   *)
(* that row: its summary and its sent_at are left unchanged, whatever      *)
(* state (Candidate, Summarized or Sent) the row is in.                    *)
(***************************************************************************)
SelectorStep ==
    \E p \in Procs :
        /\ procs[p].job \in {"sync", "onboard"}
        /\ procs[p].pc \in {"search", "insert"}
        /\ procs'[p] # procs[p]

C28_SelectorLeavesKnownRowsAlone ==
    [][SelectorStep =>
          \A id \in RowIds(extractions_pro) :
              /\ id \in RowIds(extractions_pro')
              /\ RowOf(extractions_pro', id).summary = RowOf(extractions_pro, id).summary
              /\ RowOf(extractions_pro', id).sent_at = RowOf(extractions_pro, id).sent_at]_vars

\* A selector run has registered again a triple whose row is Sent.
C28_Witness ==
    \E p \in Procs :
        /\ procs[p].job = "sync" /\ procs[p].pc = "done" /\ ~procs[p].dry_run
        /\ \E i \in DOMAIN procs[p].log : \E d \in procs[p].log[i].items :
              LET k == <<procs[p].log[i].sub, d, procs[p].period[1]>> IN
              /\ procs[p].log[i].outcome = "synced"
              /\ registered[k] = 2
              /\ Len(extractions_pro[k]) = 1
              /\ extractions_pro[k][1].summary # Null
              /\ extractions_pro[k][1].sent_at # Null

(***************************************************************************)
(* C29: writing a summary to a tuple never triggers delivery by itself and *)
(* never changes sent_at, and a tuple that is already Sent and whose       *)
(* summary is written again is not included in any later message.          *)
(***************************************************************************)
SummaryChanges(id) ==
    RowOf(extractions_pro', id).summary # RowOf(extractions_pro, id).summary

RewrittenWhileSent(id) ==
    \E q \in Procs : \E i \in DOMAIN procs[q].log :
        procs[q].log[i].outcome = "summary_rewritten" /\ id \in procs[q].log[i].items

C29_SummaryWriteNeverRedelivers ==
    [][/\ \A id \in RowIds(extractions_pro) :
             SummaryChanges(id) =>
                 /\ RowOf(extractions_pro', id).sent_at = RowOf(extractions_pro, id).sent_at
                 /\ delivered' = delivered
       /\ \A id \in RowIds(extractions_pro) :
             delivered'[id[1]] > delivered[id[1]] => ~RewrittenWhileSent(id)]_vars

(***************************************************************************)
(* C30: when two send pipelines for the same period interleave without any *)
(* lock (two batch senders, or the onboarding task and the batch sender),  *)
(* no tuple is included in two messages accepted by the mail transport:    *)
(* two pipelines never both stand between the acceptance of their message  *)
(* and its marking with a tuple in common.                                 *)
(***************************************************************************)
MessageAccepted(p) ==
    /\ procs[p].job \in {"send", "onboard"}
    /\ procs[p].pc \in {"mark", "update"}

C30_InterleavedPipelinesShareNoTuple ==
    \A p, q \in Procs :
        (/\ p # q
         /\ procs[p].job = "send"
         /\ MessageAccepted(p) /\ MessageAccepted(q)
         /\ procs[p].period = procs[q].period)
            => KeysOf(procs[p].exts) \cap KeysOf(procs[q].exts) = {}

(***************************************************************************)
(* C31: parse_document emits a Document for every raw record, never        *)
(* dropping one: a record without a package identifier yields a Document   *)
(* with an empty package_id; details_url is {base}/app/details/{package_id}*)
(* with /{granule_id} appended exactly when a granule id is present;       *)
(* pdf_url and html_url are {base}/content/pkg/{package_id}/{file} when    *)
(* the file hint is present (a non-empty value) and null otherwise.        *)
(***************************************************************************)
ParsePageApplied == m_in.fn = "parse_page" /\ m_out # Null

Hint(x) == x # Null /\ x # Some("")

ContentUrl(package_id, file) ==
    IF Hint(file) THEN Some(<<BASE_URL, "content", "pkg", package_id, file[1]>>)
    ELSE Null

DetailsUrl(package_id, granule) ==
    <<BASE_URL, "app", "details", package_id>>
        \o (IF Hint(granule) THEN <<granule[1]>> ELSE <<>>)

C31_EveryRecordParsedWithTemplateUrls ==
    ParsePageApplied =>
        /\ Len(m_out[1]) = Len(m_in.results)
        /\ \A i \in DOMAIN m_in.results :
              LET raw == m_in.results[i]
                  doc == m_out[1][i]
                  pkg == IF raw.packageid = Null THEN "" ELSE raw.packageid[1]
              IN /\ doc.package_id = pkg
                 /\ doc.details_url = DetailsUrl(pkg, raw.granuleid)
                 /\ doc.pdf_url = ContentUrl(pkg, raw.pdffile)
                 /\ doc.html_url = ContentUrl(pkg, raw.htmlfile)

\* A page of two records: the first without package id, granule or files,
\* the second with all of them.
C31_Witness ==
    /\ ParsePageApplied
    /\ Len(m_in.results) = 2
    /\ m_in.results[1].packageid = Null
    /\ m_out[1][1].package_id = ""
    /\ m_out[1][1].details_url = <<BASE_URL, "app", "details", "">>
    /\ m_out[1][1].pdf_url = Null
    /\ m_out[1][2].details_url = <<BASE_URL, "app", "details", "PKG-A", "GR-1">>
    /\ m_out[1][2].html_url = Some(<<BASE_URL, "content", "pkg", "PKG-A", "a.htm">>)

(***************************************************************************)
(* Claims about the extraction job.                                        *)
(***************************************************************************)
ExtractedIds == {sb_extractions[i].document_id : i \in DOMAIN sb_extractions}

\* C32: a document has at most one Extraction, written once: over a sequence
\* of extract_documents runs, a run never selects a document that already has
\* an Extraction, and no step changes or removes an existing Extraction row.
C32_ExtractionWrittenOnce ==
    [][/\ \A i \in DOMAIN sb_extractions :
             /\ i \in DOMAIN sb_extractions'
             /\ sb_extractions'[i] = sb_extractions[i]
       /\ \A i, j \in DOMAIN sb_extractions' :
             sb_extractions'[i].document_id = sb_extractions'[j].document_id => i = j
       /\ extract'.run # extract.run =>
             {extract'.docs[k].id : k \in DOMAIN extract'.docs} \cap ExtractedIds = {}]_vars

\* A second run has extracted a document while the first run's Extraction of
\* another document, whose html_url is still there to be selected, stands.
C32_Witness ==
    /\ extract.pc = "done" /\ extract.run = 2 /\ extract.total_extracted > 0
    /\ IsNull(extract.limit) /\ IsNull(extract.date)
    /\ \E i, j \in DOMAIN sb_extractions :
          /\ sb_extractions[i].extracted_at = 1
          /\ sb_extractions[j].extracted_at = 2

\* Documents the run's query ranges over that have no Extraction.
Remaining(date) ==
    {d \in DOMAIN store_documents :
        /\ store_documents[d].html_url # Null
        /\ (IsNull(date) \/ store_documents[d].publish_date = date[1])
        /\ d \notin ExtractedIds}

\* C38: when extract_documents is run repeatedly with one limit L >= 1 and
\* every batch succeeds, a run returns 0 only when no document with an
\* html_url is left without an Extraction (so that repeated runs reach every
\* such document).
C38_ZeroOnlyWhenNothingRemains ==
    [][(/\ extract'.run # extract.run
        /\ extract'.pc = "done" /\ extract'.returned = Some(0)
        /\ extract'.clean
        /\ \E l \in 1..MaxLimit : extract'.limits = {Some(l)})
       => Remaining(extract'.date) = {}]_vars

(***************************************************************************)
(* Claims about the summarizer's failures and the row states.              *)
(***************************************************************************)
\* A pass of the summarizer's loop that fails for its tuple: the document
\* has no html_url, or the pass got as far as the summarization call and,
\* outside a dry run, no summary is stored (the call failed or returned no
\* summary, or the summary update failed).  The log line that raises on a
\* NULL title comes before the call and is none of these.
SummaryFailureStep(p) ==
    /\ procs[p].job = "summarize" /\ procs[p].pc = "summary"
    /\ procs'[p] # procs[p]
    /\ LET id == Head(procs[p].queue) IN
          \/ IsNull(html_url(procs[p].documents, id[1][2]))
          \/ /\ ~IsNull(procs[p].documents[id[1][2]].title)
             /\ ~procs[p].dry_run
             /\ RowOf(extractions_pro', id).summary = RowOf(extractions_pro, id).summary

\* C33: in generate_pro_summaries a pass of the loop that fails for its
\* tuple leaves the tuple a Candidate with summary null, adds exactly one to
\* the error count, and the loop goes on with the remaining tuples.
C33_FailedTupleStaysCandidateRunGoesOn ==
    [][\A p \in Procs : SummaryFailureStep(p) =>
          LET id == Head(procs[p].queue) IN
          /\ extractions_pro' = extractions_pro
          /\ IsNull(RowOf(extractions_pro', id).summary)
          /\ IsNull(RowOf(extractions_pro', id).sent_at)
          /\ procs'[p].stats.errors = procs[p].stats.errors + 1
          /\ procs'[p].queue = Tail(procs[p].queue)
          /\ procs'[p].pc = IF Tail(procs[p].queue) = <<>> THEN "done" ELSE "summary"]_vars

\* A summarizer run has counted the failure of its first tuple and goes on
\* with the second, the first still a Candidate without summary.
C33_Witness ==
    \E p \in Procs :
        /\ procs[p].job = "summarize" /\ procs[p].pc = "summary"
        /\ ~procs[p].dry_run
        /\ procs[p].stats.processed = 1
        /\ procs[p].stats.success = 0 /\ procs[p].stats.errors = 1
        /\ procs[p].queue # <<>>
        /\ \A id \in RowIds(extractions_pro) :
               IsNull(RowOf(extractions_pro, id).summary)

\* C34: in every state reached through the select, summarize, send and
\* onboarding operations, a tuple whose sent_at is set has its summary set:
\* no tuple is Sent without having been Summarized.
C34_SentImpliesSummarized ==
    \A id \in RowIds(extractions_pro) :
        ~IsNull(RowOf(extractions_pro, id).sent_at)
            => ~IsNull(RowOf(extractions_pro, id).summary)

\* A tuple has been marked Sent while another tuple, not summarized, is
\* still unsent.
C34_Witness ==
    \E id, other \in RowIds(extractions_pro) :
        /\ ~IsNull(RowOf(extractions_pro, id).sent_at)
        /\ delivered[id[1]] > 0
        /\ IsNull(RowOf(extractions_pro, other).summary)
        /\ IsNull(RowOf(extractions_pro, other).sent_at)

(***************************************************************************)
(* Claims about the senders' counters.                                     *)
(***************************************************************************)
Counted(stats) == stats.sent + stats.failed + stats.skipped

\* C35: when send_digests or send_pro_digests returns, sent + failed +
\* skipped is the number of active subscriptions fetched at the start; while
\* the loop runs, the subscribers counted and those still to come add up to
\* that number, so each is counted in exactly one counter.
C35_CountersAddUpToSubscribers ==
    /\ std.pc \in {"loop", "done"} =>
          Counted(std.stats) + Len(std.queue)
              = Cardinality(fetch_active_subscriptions(subscriptions))
    /\ \A p \in DOMAIN procs :
          procs[p].job = "send" /\ procs[p].pc # "raised" =>
              Counted(procs[p].stats) + Len(procs[p].queue)
                  = Cardinality(fetch_active_pro_subscriptions(subscriptions_pro))
                    + (IF procs[p].pc \in {"mark", "update"} THEN 1 ELSE 0)

\* send_pro_digests returned after two subscribers, one mailed and one
\* whose send failed.
C35_Witness ==
    \E p \in DOMAIN procs :
        /\ procs[p].job = "send" /\ procs[p].pc = "done"
        /\ procs[p].stats.sent = 1 /\ procs[p].stats.failed = 1
        /\ procs[p].resend_api_key /\ ~procs[p].dry_run
        /\ Cardinality(fetch_active_pro_subscriptions(subscriptions_pro)) = 2

(***************************************************************************)
(* Claims about the publish date of a crawled range.                       *)
(***************************************************************************)
\* The rows of tbl written by the save stamped crawled_at.
SavedAt(tbl, crawled_at) ==
    SelectSeq(tbl, LAMBDA row : row.crawled_at = crawled_at)

\* C36: every Document crawl_date_range(start_date, end_date) yields carries
\* publish_date = start_date, also when the two dates differ; after a saved
\* crawl a read by exact publish date returns the crawl's rows for start_date,
\* every yielded document among them, and none of them for another day.
C36_RangeDocumentsCarryStartDate ==
    /\ crawl.pc \in {"fetch", "save"} =>
          \A i \in DOMAIN crawl.docs : crawl.docs[i].publish_date = crawl.start_date[1]
    /\ \A r \in DOMAIN ingest : ingest[r].saved =>
          /\ \A d \in Dates \ {ingest[r].start_date} :
                SavedAt(export_to_json(documents, Some(d)), ingest[r].crawled_at[1]) = <<>>
          /\ SavedAt(export_to_json(documents, Some(ingest[r].start_date)),
                     ingest[r].crawled_at[1])
                = SavedAt(documents, ingest[r].crawled_at[1])
          /\ r = Len(ingest) /\ crawl.pc = "idle" =>
                \A i \in DOMAIN ingest[r].docs :
                    \E k \in DOMAIN documents :
                        /\ documents[k].publish_date = ingest[r].start_date
                        /\ documents[k].crawled_at = ingest[r].crawled_at[1]
                        /\ documents[k].package_id = ingest[r].docs[i].package_id
                        /\ documents[k].granule_id = ingest[r].docs[i].granule_id

\* crawl_range over days 1 to 2 has saved documents: the read for day 1
\* returns rows, the read for day 2 returns none.
C36_Witness ==
    /\ crawl.pc = "idle" /\ ingest # <<>>
    /\ ingest[Len(ingest)].saved
    /\ ingest[Len(ingest)].start_date = 1 /\ ingest[Len(ingest)].end_date = 2
    /\ ingest[Len(ingest)].docs # <<>>
    /\ export_to_json(documents, Some(1)) # <<>>
    /\ export_to_json(documents, Some(2)) = <<>>

(***************************************************************************)
(* Claims about the onboarding webhook.                                    *)
(***************************************************************************)
WebhookAnswered == m_in.fn = "webhook_pro_onboard" /\ ~IsNull(m_out)

Authenticated ==
    \/ m_in.WEBHOOK_SECRET = ""
    \/ m_in.x_webhook_secret = Some(m_in.WEBHOOK_SECRET)
WellFormedPayload ==
    /\ ~IsNull(m_in.body)
    /\ ~IsNull(m_in.body.type) /\ ~IsNull(m_in.body.table) /\ ~IsNull(m_in.body.record)
InsertOnSubscriptionsPro ==
    /\ WellFormedPayload
    /\ m_in.body.type = Some("INSERT") /\ m_in.body.table = Some("subscriptions_pro")
WellFormedRecord ==
    /\ InsertOnSubscriptionsPro
    /\ m_in.body.record[1].id = "int" /\ m_in.body.record[1].email = "str"

\* C37: the onboarding webhook schedules the pipeline only for an
\* authenticated, well-formed INSERT on subscriptions_pro.  With a secret set
\* and another x-webhook-secret header the answer is 401; past that check an
\* invalid payload is answered 400, a valid payload of another type or table
\* is answered as ignored, and an INSERT on subscriptions_pro with an invalid
\* record is answered 400; no task is scheduled in any of these cases.
C37_OnboardingOnlyForAuthenticInsert ==
    WebhookAnswered =>
        LET r == m_out[1] IN
        /\ r.tasks # <<>> =>
              Authenticated /\ WellFormedRecord /\ r.tasks = <<m_in.body.record[1]>>
        /\ ~Authenticated => r.status = 401 /\ r.tasks = <<>>
        /\ Authenticated /\ ~WellFormedPayload => r.status = 400 /\ r.tasks = <<>>
        /\ Authenticated /\ WellFormedPayload /\ ~InsertOnSubscriptionsPro =>
              r.status = 200 /\ r.detail = "Ignored" /\ r.tasks = <<>>
        /\ Authenticated /\ InsertOnSubscriptionsPro /\ ~WellFormedRecord =>
              r.status = 400 /\ r.tasks = <<>>

\* A well-formed INSERT on subscriptions_pro arrived with the wrong secret
\* and was answered 401 with no task.
C37_Witness ==
    /\ WebhookAnswered
    /\ m_in.WEBHOOK_SECRET = "s3cret" /\ m_in.x_webhook_secret = Some("other")
    /\ WellFormedRecord
    /\ m_out[1].status = 401 /\ m_out[1].tasks = <<>>

=============================================================================
